---- MODULE Spec2Model ----
(***************************************************************************)
(* Model of the financial-ratio pipeline of ourportfolios:                 *)
(*   - preprocessing/financial_statements.py: the module cache, the        *)
(*     fetch + categorize pipeline (get_transformed_dataframes,            *)
(*     _categorize_ratios, _compute_growth_rates);                         *)
(*   - utils/database/fetch_data.py: the four fetch_*_async pivots;        *)
(*   - pages/compare/state.py: StockComparisonState and its handlers.      *)
(*                                                                         *)
(* A pandas cell is a record [k, n]: a number, NaN, +/-inf or a text.      *)
(* A DataFrame is [cols, rows]: the set of column names and the sequence   *)
(* of rows, each row a function from cols to cells.                        *)
(***************************************************************************)
EXTENDS Integers, Sequences, FiniteSets, TLC

VARIABLES
    now,            \* wall clock (datetime.now()), in minutes
    db,             \* database content: ticker -> scenario
    dbVersion,      \* history: number of database updates so far
    pandasMajor,    \* major version of the pandas the build runs on
    cache,          \* financial_statements._cache: cache key -> (data, time)
    calls,          \* per caller: its get_transformed_dataframes call
    numCalls,       \* number of calls started so far
    compare_list,   \* StockComparisonState.compare_list
    stocks,         \* the symbols of StockComparisonState.stocks
    time_period, selected_metrics, all_metrics, historical_data,
    data_cache,     \* _data_cache: key -> dataset (fetched: when it was fetched)
    fetch_runs,     \* history: the number of fetch_historical_data runs so far
    inTables,       \* input frames of the pure-function specifications
    inPeriod,       \* period argument of the pure-function specifications
    outValue,       \* result of the pure function applied
    framework_metrics,  \* StockComparisonState.framework_metrics
    framework_state,    \* GlobalFrameworkState: selected_framework_id and
                        \* framework_metrics
    last_event,         \* history: the handler that ran last
    is_loading_data     \* StockComparisonState.is_loading_data

envVars == <<now, db, dbVersion, pandasMajor>>
callVars == <<cache, calls, numCalls>>
sessionVars == <<compare_list, stocks, time_period, selected_metrics, all_metrics,
                 historical_data, data_cache, fetch_runs>>
pureVars == <<inTables, inPeriod, outValue>>
frameworkVars == <<framework_metrics, framework_state, last_event>>
pageVars == <<is_loading_data>>

vars == <<envVars, callVars, sessionVars, pureVars, frameworkVars, pageVars>>

----------------------------------------------------------------------------
(* Cells *)

Num(x) == [k |-> "num", n |-> x]
NaN == [k |-> "nan", n |-> 0]
Inf(s) == [k |-> "inf", n |-> s]
Txt == [k |-> "txt", n |-> 0]

\* pd.notna / Series.notna
NotNa(c) == c.k # "nan"

(* DataFrames *)

EmptyDF == [cols |-> {}, rows |-> <<>>]

\* DataFrame.empty: any axis of length 0
IsEmptyDF(df) == df.cols = {} \/ Len(df.rows) = 0

Range(s) == {s[i] : i \in DOMAIN s}

\* a function and a sequence as tabulated values: the model checker computes
\* each element once instead of at every application
Tabulated(f) == f @@ <<>>
Listed(s) == s \o <<>>

\* F applied to the value of v: v is computed once, where it is bound
With(v, F(_)) == CHOOSE r \in {F(x) : x \in {v}} : TRUE

\* the period key of a row: (year, quarter), quarter 0 when there is no such column
KeyOf(row) ==
    <<row["year"].n, IF "quarter" \in DOMAIN row THEN row["quarter"].n ELSE 0>>

KeyLess(a, b) == a[1] < b[1] \/ (a[1] = b[1] /\ a[2] < b[2])

\* the keys of a set, in ascending order
RECURSIVE SortedKeys(_)
SortedKeys(S) ==
    IF S = {} THEN <<>>
    ELSE LET m == CHOOSE x \in S : \A y \in S : y = x \/ KeyLess(x, y)
         IN  <<m>> \o SortedKeys(S \ {m})

Reverse(s) == [i \in 1..Len(s) |-> s[Len(s) + 1 - i]]

----------------------------------------------------------------------------
(* utils/database/fetch_data.py: fetch_*_async.  A statement family of one  *)
(* ticker and granularity is a set of facts [year, quarter, metric, value]   *)
(* (the SELECT's rows), at most one per (year, quarter, metric).            *)

FamilyNames == {"ratios", "income", "balance", "cashflow"}

FactKey(f, period) == <<f.year, IF period = "quarter" THEN f.quarter ELSE 0>>

\* df.pivot(index, columns="metric", values="value"), the year/quarter columns
\* put back, sorted by period descending; an empty result set gives pd.DataFrame()
PivotTable(facts, period) ==
    IF facts = {} THEN EmptyDF
    ELSE LET metrics == {f.metric : f \in facts}
             keys == Reverse(SortedKeys({FactKey(f, period) : f \in facts}))
             timeCols == IF period = "quarter" THEN {"period", "year", "quarter"}
                         ELSE {"year"}
             cell(k, c) ==
                 IF c = "year" THEN Num(k[1])
                 ELSE IF c = "quarter" THEN Num(k[2])
                 ELSE IF c = "period" THEN Txt
                 ELSE IF \E f \in facts : FactKey(f, period) = k /\ f.metric = c
                      THEN (CHOOSE f \in facts :
                                FactKey(f, period) = k /\ f.metric = c).value
                      ELSE NaN
         IN  [cols |-> timeCols \cup metrics,
              rows |-> Listed([i \in 1..Len(keys) |->
                          Tabulated([c \in timeCols \cup metrics |->
                                        cell(keys[i], c)])])]

\* one fetch_*_async call: the pivot of the rows, or pd.DataFrame() when the
\* query raised (except Exception: return pd.DataFrame())
FetchFamily(facts, period, queryFails) ==
    IF queryFails THEN EmptyDF ELSE PivotTable(facts, period)

----------------------------------------------------------------------------
(* pandas.DataFrame.merge(right, on=keys, how="outer") *)

MergeKeys(period) == IF period = "year" THEN {"year"} ELSE {"year", "quarter"}

\* the non-key columns both frames hold: they get the suffixes _x and _y
Overlap(left, right, period) == (left.cols \cap right.cols) \ MergeKeys(period)

\* pandas >= 2.0 raises MergeError when a suffixed column collides with a
\* column the frame already holds; pandas 1.x only warns
MergeRaises(left, right, period, pd) ==
    /\ pd >= 2
    /\ \E c \in Overlap(left, right, period) :
           (c \o "_x") \in left.cols \/ (c \o "_y") \in right.cols

MergeOuter(left, right, period) ==
    LET keys == MergeKeys(period)
        ov == Overlap(left, right, period)
        L(c) == IF c \in ov THEN c \o "_x" ELSE c
        R(c) == IF c \in ov THEN c \o "_y" ELSE c
        lkeys == {KeyOf(left.rows[i]) : i \in DOMAIN left.rows}
        rkeys == {KeyOf(right.rows[i]) : i \in DOMAIN right.rows}
        order == SortedKeys(lkeys \cup rkeys)
        lrow(k) == left.rows[CHOOSE i \in DOMAIN left.rows : KeyOf(left.rows[i]) = k]
        rrow(k) == right.rows[CHOOSE i \in DOMAIN right.rows : KeyOf(right.rows[i]) = k]
        lcols == {L(c) : c \in left.cols}
        rcols == {R(c) : c \in right.cols \ keys}
        cell(k, c) ==
            IF c = "year" THEN Num(k[1])
            ELSE IF c = "quarter" /\ "quarter" \in keys THEN Num(k[2])
            ELSE IF c \in lcols
                 THEN (IF k \in lkeys
                       THEN lrow(k)[CHOOSE lc \in left.cols : L(lc) = c]
                       ELSE NaN)
                 ELSE (IF k \in rkeys
                       THEN rrow(k)[CHOOSE rc \in right.cols \ keys : R(rc) = c]
                       ELSE NaN)
    IN  [cols |-> lcols \cup rcols,
         rows |-> Listed([i \in 1..Len(order) |->
                     Tabulated([c \in lcols \cup rcols |-> cell(order[i], c)])])]

----------------------------------------------------------------------------
(* preprocessing/financial_statements.py: _compute_growth_rates *)

growth_mappings ==
    [n \in {"Revenue YoY", "Earnings YoY", "Free Cash Flow YoY",
            "Dividends YoY", "Book Value YoY"} |->
        CASE n = "Revenue YoY" -> "Net Sales"
          [] n = "Earnings YoY" -> "EPS (VND)"
          [] n = "Free Cash Flow YoY" -> "Free Cash Flow"
          [] n = "Dividends YoY" -> "Dividends paid"
          [] n = "Book Value YoY" -> "BVPS (VND)"]

\* df.sort_values(sort_cols): the rows in ascending order of their period key
\* (stable insertion; the keys of a pivoted or merged frame are distinct)
RECURSIVE SortRowsAsc(_)
SortRowsAsc(rows) ==
    IF Len(rows) <= 1 THEN rows
    ELSE LET rest == SortRowsAsc(Tail(rows))
             r == Head(rows)
             before == SelectSeq(rest, LAMBDA x : KeyLess(KeyOf(x), KeyOf(r)))
             after == SelectSeq(rest, LAMBDA x : ~KeyLess(KeyOf(x), KeyOf(r)))
         IN  before \o <<r>> \o after

\* Series.pct_change()'s fill: pandas 1.x and 2.x forward-fill the NaN cells
\* first (fill_method="pad"), pandas 3 does not
RECURSIVE PadFill(_)
PadFill(series) ==
    IF Len(series) <= 1 THEN series
    ELSE LET init == PadFill(SubSeq(series, 1, Len(series) - 1))
             last == series[Len(series)]
         IN  Append(init, IF NotNa(last) THEN last ELSE init[Len(init)])

\* (cur / prev - 1) * 100 in float arithmetic; the division is exact for the
\* values the model draws
PctCell(prev, cur) ==
    IF ~NotNa(prev) \/ ~NotNa(cur) THEN NaN
    ELSE IF prev.n = 0
         THEN (IF cur.n = 0 THEN NaN ELSE Inf(IF cur.n > 0 THEN 1 ELSE -1))
         ELSE Num(((cur.n - prev.n) * 100) \div prev.n)

\* series.pct_change() * 100
PctChange(series, pd) ==
    LET filled == IF pd <= 2 THEN PadFill(series) ELSE series
    IN  Listed([i \in 1..Len(series) |->
                   IF i = 1 THEN NaN ELSE PctCell(filled[i - 1], filled[i])])

_compute_growth_rates(ratios_df, period, pd) ==
    IF IsEmptyDF(ratios_df) THEN <<>>
    ELSE
    LET year_col == IF "year" \in ratios_df.cols THEN "year" ELSE "Year"
        quarter_col == IF "quarter" \in ratios_df.cols THEN "quarter" ELSE "Quarter"
        withQuarter == period = "quarter" /\ quarter_col \in ratios_df.cols
        df == SortRowsAsc(ratios_df.rows)
        names == {g \in DOMAIN growth_mappings :
                      growth_mappings[g] \in ratios_df.cols}
        series(g) == Listed([i \in 1..Len(df) |-> df[i][growth_mappings[g]]])
        pct == Tabulated([g \in names |-> PctChange(series(g), pd)])
        timeCols == {"Year"} \cup (IF withQuarter THEN {"Quarter"} ELSE {})
        growth_row(i) ==
            Tabulated([c \in timeCols \cup names |->
                IF c = "Year" THEN df[i][year_col]
                ELSE IF c = "Quarter" THEN df[i][quarter_col]
                ELSE pct[c][i]])
        \* mask = growth_df[growth_cols].notna().any(axis=1), only if growth_cols
        keep(i) == names = {} \/ \E g \in names : NotNa(pct[g][i])
        kept == SelectSeq([i \in 1..Len(df) |-> i], keep)
    IN  IF year_col \notin ratios_df.cols THEN <<>>
        ELSE Listed([j \in 1..Len(kept) |-> growth_row(kept[j])])

----------------------------------------------------------------------------
(* preprocessing/financial_statements.py: _categorize_ratios *)

Categories == {"Per Share Value", "Growth Rate", "Profitability", "Valuation",
               "Leverage & Liquidity", "Efficiency"}

per_share_metrics ==
    {"EPS (VND)", "BVPS (VND)", "Net Sales", "Free Cash Flow", "Dividends paid",
     "OWNER'S EQUITY(Bn.VND)"}

profitability_metrics ==
    {"Gross Profit Margin (%)", "Net Profit Margin (%)", "EBIT Margin (%)",
     "Operating Profit/Loss", "ROE (%)", "ROA (%)", "ROIC (%)", "EBITDA (Bn. VND)"}

valuation_metrics ==
    {"P/E", "P/B", "P/S", "P/Cash Flow", "EV/EBITDA", "Market Capital (Bn. VND)",
     "Outstanding Share (Mil. Shares)"}

leverage_liquidity_metrics ==
    {"Debt/Equity", "(ST+LT borrowings)/Equity", "EBITDA (Bn. VND)",
     "Short-term borrowings (Bn. VND)", "Long-term borrowings (Bn. VND)",
     "Financial Leverage", "Current Ratio", "Quick Ratio", "Cash Ratio",
     "Interest Coverage"}

efficiency_metrics ==
    {"Asset Turnover", "Fixed Asset Turnover", "Inventory Turnover",
     "Days Sales Outstanding", "Days Inventory Outstanding",
     "Days Payable Outstanding", "Cash Cycle", "Fixed Asset-To-Equity",
     "Owners' Equity/Charter Capital", "Accounts receivable (Bn. VND)",
     "Dividends paid"}

time_cols == {"year", "Year", "quarter", "Quarter", "period"}

\* the skeleton: all six category keys, each an empty list
EmptyCategories == Tabulated([c \in Categories |-> <<>>])

\* the helper extract_category(metrics_list) on combined_df
extract_category(combined_df, period, metrics_list) ==
    LET available_cols == combined_df.cols \ time_cols
        found_metrics == metrics_list \cap available_cols
        yearCol == IF "year" \in combined_df.cols THEN "year" ELSE "Year"
        quarterCol == IF "quarter" \in combined_df.cols THEN "quarter" ELSE "Quarter"
        cols_to_keep ==
            ({yearCol} \cup (IF period = "quarter" THEN {quarterCol} ELSE {})
                       \cup found_metrics) \cap combined_df.cols
        rename(c) == IF c = "year" THEN "Year"
                     ELSE IF c = "quarter" THEN "Quarter" ELSE c
        source(c) == CHOOSE o \in cols_to_keep : rename(o) = c
        record(row) ==
            Tabulated([c \in {rename(o) : o \in cols_to_keep} |-> row[source(c)]])
    IN  IF found_metrics = {} \/ cols_to_keep = {} THEN <<>>
        ELSE Listed([i \in 1..Len(combined_df.rows) |->
                        record(combined_df.rows[i])])

\* lines 142-174: ratios_df, then each non-empty statement frame merged in;
\* [raised, df]: raised when a merge raised MergeError
CombineStep(acc, df, period, pd) ==
    IF acc.raised \/ IsEmptyDF(df) THEN acc
    ELSE IF IsEmptyDF(acc.df) THEN [raised |-> FALSE, df |-> df]
    ELSE IF MergeRaises(acc.df, df, period, pd) THEN [raised |-> TRUE, df |-> EmptyDF]
    ELSE [raised |-> FALSE, df |-> MergeOuter(acc.df, df, period)]

CombinedFrame(ratios_df, period, income_df, balance_df, cashflow_df, pd) ==
    LET c0 == [raised |-> FALSE,
               df |-> IF IsEmptyDF(ratios_df) THEN EmptyDF ELSE ratios_df]
        c1 == CombineStep(c0, income_df, period, pd)
        c2 == CombineStep(c1, balance_df, period, pd)
    IN  CombineStep(c2, cashflow_df, period, pd)

\* [raised, value]: the categorized ratios, or raised when the function raised
_categorize_ratios(ratios_df, period, income_df, balance_df, cashflow_df, pd) ==
    With(CombinedFrame(ratios_df, period, income_df, balance_df, cashflow_df, pd),
         LAMBDA comb :
    LET combined_df == comb.df
        cat(c) ==
            CASE c = "Per Share Value" ->
                     extract_category(combined_df, period, per_share_metrics)
              [] c = "Profitability" ->
                     extract_category(combined_df, period, profitability_metrics)
              [] c = "Valuation" ->
                     extract_category(combined_df, period, valuation_metrics)
              [] c = "Leverage & Liquidity" ->
                     extract_category(combined_df, period, leverage_liquidity_metrics)
              [] c = "Efficiency" ->
                     extract_category(combined_df, period, efficiency_metrics)
              [] c = "Growth Rate" -> _compute_growth_rates(combined_df, period, pd)
    IN  IF comb.raised THEN [raised |-> TRUE, value |-> EmptyCategories]
        ELSE IF IsEmptyDF(combined_df)
             THEN [raised |-> FALSE, value |-> EmptyCategories]
             ELSE [raised |-> FALSE,
                   value |-> Tabulated([c \in Categories |-> cat(c)])])

----------------------------------------------------------------------------
(* preprocessing/financial_statements.py: get_transformed_dataframes *)

CacheDuration == 30

cache_key(ticker_symbol, period) == ticker_symbol \o "_" \o period

NoRatioError ==
    "No ratio data found in database. Data may need to be loaded via ourscheduler."

\* the error-carrying skeleton of lines 58-71 and 98-111
ErrorDataset(msg) ==
    [transformed_income_statement |-> <<>>,
     transformed_balance_sheet |-> <<>>,
     transformed_cash_flow |-> <<>>,
     categorized_ratios |-> EmptyCategories,
     error |-> msg]

HasError(result) == "error" \in DOMAIN result

\* variant: the except branch returns the bare error, without the skeleton
TransformFrames_BareError(frames, period, pd) ==
    IF IsEmptyDF(frames["ratios"])
    THEN ErrorDataset(NoRatioError)
    ELSE With(_categorize_ratios(frames["ratios"], period, frames["income"],
                                 frames["balance"], frames["cashflow"], pd),
              LAMBDA cr :
                  IF cr.raised THEN [error |-> "MergeError"]
                  ELSE [transformed_income_statement |-> frames["income"].rows,
                        transformed_balance_sheet |-> frames["balance"].rows,
                        transformed_cash_flow |-> frames["cashflow"].rows,
                        categorized_ratios |-> cr.value])

\* variant: the missing-data error is returned when any family is empty
TransformFrames_AllRequired(frames, period, pd) ==
    IF \E f \in FamilyNames : IsEmptyDF(frames[f])
    THEN ErrorDataset(NoRatioError)
    ELSE With(_categorize_ratios(frames["ratios"], period, frames["income"],
                                 frames["balance"], frames["cashflow"], pd),
              LAMBDA cr :
                  IF cr.raised THEN ErrorDataset("MergeError")
                  ELSE [transformed_income_statement |-> frames["income"].rows,
                        transformed_balance_sheet |-> frames["balance"].rows,
                        transformed_cash_flow |-> frames["cashflow"].rows,
                        categorized_ratios |-> cr.value])

\* lines 57-111, after the gather: frames is the four fetched DataFrames by
\* family; the dataset returned and whether it is stored in _cache
TransformFrames(frames, period, pd) ==
    IF IsEmptyDF(frames["ratios"])
    THEN ErrorDataset(NoRatioError)
    ELSE With(_categorize_ratios(frames["ratios"], period, frames["income"],
                                 frames["balance"], frames["cashflow"], pd),
              LAMBDA cr :
                  IF cr.raised THEN ErrorDataset("MergeError")
                  ELSE [transformed_income_statement |-> frames["income"].rows,
                        transformed_balance_sheet |-> frames["balance"].rows,
                        transformed_cash_flow |-> frames["cashflow"].rows,
                        categorized_ratios |-> cr.value])

\* variant: every result is stored, error datasets included
StoresResult_Always(result) == TRUE

\* variant: no result is stored
StoresResult_Never(result) == FALSE

\* variant: the except branch stores its error result as well, and only it
StoresResult_Errors(result) == HasError(result)

\* line 92 is reached only on the success path
StoresResult(result) == ~HasError(result)

\* variant: the entry is served for half of _cache_duration only
CacheHit_HalfDuration(c, key, t) ==
    key \in DOMAIN c /\ 2 * (t - c[key].time) < CacheDuration

\* lines 43-46: the entry is served while it is younger than _cache_duration
CacheHit(c, key, t) == key \in DOMAIN c /\ t - c[key].time < CacheDuration

\* line 92: _cache[cache_key] = (result, datetime.now())
CachePut(c, key, result, t) ==
    Tabulated([k \in DOMAIN c \cup {key} |->
                  IF k = key THEN [data |-> result, time |-> t] ELSE c[k]])

----------------------------------------------------------------------------
(* The database: each ticker holds one of a few contents (scenarios); the    *)
(* rows of a statement family are facts over three periods.                 *)

Tickers == {"AAA", "BBB"}
PeriodModes == {"year", "quarter"}
Scenarios == {"partial", "complete"}

PeriodKeysOf(period) ==
    IF period = "year" THEN <<<<2020, 0>>, <<2021, 0>>, <<2022, 0>>>>
    ELSE <<<<2021, 3>>, <<2021, 4>>, <<2022, 1>>>>

\* the rows of one metric: period index i holds the value scale * i
MetricFacts(period, metric, idxs, scale) ==
    {[year |-> PeriodKeysOf(period)[i][1], quarter |-> PeriodKeysOf(period)[i][2],
      metric |-> metric, value |-> Num(scale * i)] : i \in idxs}

ScenarioFacts(scn, period, family) ==
    CASE scn = "partial" ->
            (CASE family = "ratios" ->
                      MetricFacts(period, "EPS (VND)", {2, 3}, 1)
                      \cup MetricFacts(period, "P/E", {2, 3}, 2)
               [] family = "income" -> MetricFacts(period, "Net Sales", {1, 2}, 1)
               [] family = "balance" ->
                      MetricFacts(period, "OWNER'S EQUITY(Bn.VND)", {2, 3}, 1)
               [] OTHER -> {})
      [] scn = "complete" ->
            (CASE family = "ratios" -> MetricFacts(period, "EPS (VND)", {1, 2, 3}, 2)
               [] family = "income" -> MetricFacts(period, "Net Sales", {1, 2, 3}, 1)
               [] family = "balance" ->
                      MetricFacts(period, "OWNER'S EQUITY(Bn.VND)", {1, 2, 3}, 1)
               [] OTHER -> MetricFacts(period, "Dividends paid", {1, 2, 3}, 1))

\* the sets of statement families whose query may raise in one gather
FailSets == {{}, {"ratios"}}

\* the pandas majors of the builds
PandasMajors == {1, 2, 3}

\* line 50: the four frames the gather returns for a ticker holding scn,
\* the queries of the families in failed raising inside their coroutine
FetchedFrames(scn, period, failed) ==
    Tabulated([fam \in FamilyNames |->
                  FetchFamily(ScenarioFacts(scn, period, fam), period,
                              fam \in failed)])

----------------------------------------------------------------------------
(* Concurrent callers of get_transformed_dataframes (pages of several       *)
(* sessions share the module cache).  A call suspends at the gather of the   *)
(* four fetches; each fetch reads the database when it runs.                *)

Callers == {"c1", "c2"}
\* the tickers the concurrent callers ask for
CallTickers == {"AAA"}
MaxTicks == 2
MaxDbUpdates == 1

\* the pandas majors the concurrent callers run on: the scenario tables hold no
\* missing value inside a series, so majors 2 and 3 compute the same datasets
CallsPandas == {1, 2}

\* the clock advances in steps of half the cache duration
TickMinutes == CacheDuration \div 2

\* a call: pc and arguments, what its four fetches read (read: the content
\* of the database and the families whose query raised; the frames the
\* gather returns are FetchedFrames of it), the result returned; seq, fetched, faults,
\* concurrent, dbChanged, raised and families are history of the call
\* (raised: _categorize_ratios raised inside the try block)
IdleCall ==
    [pc |-> "idle", seq |-> 0, ticker |-> "", period |-> "", start |-> 0,
     fetched |-> FALSE, faults |-> FALSE, concurrent |-> FALSE,
     dbChanged |-> FALSE, raised |-> FALSE, read |-> <<>>, families |-> {},
     result |-> <<>>]

KeyOfCall(c) == cache_key(c.ticker, c.period)

\* the callers suspended in the gather for the same key
FetchingSame(c, key) ==
    {d \in Callers \ {c} : calls[d].pc = "fetching" /\ KeyOfCall(calls[d]) = key}

\* the callers are interchangeable: they place their calls in this order
CallerLess(d, c) == d = "c1" /\ c = "c2"

\* lines 42-46: the call starts; a fresh entry is returned at once, otherwise
\* the four fetches are started (line 50)
Call(c, t, p) ==
    /\ calls[c].pc = "idle"
    /\ \A d \in Callers : CallerLess(d, c) => calls[d].pc # "idle"
    /\ numCalls' = numCalls + 1
    /\ LET key == cache_key(t, p)
           base == [IdleCall EXCEPT !.seq = numCalls + 1, !.ticker = t,
                                    !.period = p, !.start = now]
           others == FetchingSame(c, key)
       IN  IF CacheHit(cache, key, now)
           THEN calls' = [calls EXCEPT ![c] =
                            [base EXCEPT !.pc = "done", !.result = cache[key].data]]
           ELSE calls' = [d \in Callers |->
                            IF d = c
                            THEN [base EXCEPT !.pc = "fetching", !.fetched = TRUE,
                                              !.concurrent = others # {}]
                            ELSE IF d \in others
                                 THEN [calls[d] EXCEPT !.concurrent = TRUE]
                                 ELSE calls[d]]
    /\ UNCHANGED <<cache, envVars, sessionVars, pureVars, frameworkVars, pageVars>>

\* the four gathered fetch_*_async coroutines run: each reads the database,
\* the queries of the families in failed raise inside their coroutine
FetchAll(c, failed) ==
    /\ calls[c].pc = "fetching"
    /\ calls[c].read = <<>>
    /\ calls' = [calls EXCEPT
                   ![c].read = <<db[calls[c].ticker], failed>>,
                   ![c].faults = failed # {}]
    /\ UNCHANGED <<cache, numCalls, envVars, sessionVars, pureVars, frameworkVars,
                   pageVars>>

\* lines 57-111: the gather has returned; categorize, store, return
Finish(c) ==
    /\ calls[c].pc = "fetching"
    /\ calls[c].read # <<>>
    /\ LET frames == FetchedFrames(calls[c].read[1], calls[c].period,
                                   calls[c].read[2])
           cr == _categorize_ratios(frames["ratios"], calls[c].period,
                                    frames["income"], frames["balance"],
                                    frames["cashflow"], pandasMajor)
           result == TransformFrames(frames, calls[c].period, pandasMajor)
           key == KeyOfCall(calls[c])
       IN  /\ cache' = IF StoresResult(result)
                       THEN CachePut(cache, key, result, now) ELSE cache
           /\ calls' = [calls EXCEPT
                           ![c].pc = "done", ![c].result = result,
                           ![c].raised = cr.raised,
                           ![c].families = {f \in FamilyNames :
                                               ~IsEmptyDF(frames[f])},
                           ![c].read = <<>>]
    /\ UNCHANGED <<numCalls, envVars, sessionVars, pureVars, frameworkVars, pageVars>>

\* time passes
Tick ==
    /\ now + TickMinutes <= MaxTicks * TickMinutes
    /\ now' = now + TickMinutes
    /\ UNCHANGED <<db, dbVersion, pandasMajor, callVars, sessionVars, pureVars, frameworkVars,
                   pageVars>>

\* the scheduler loads other data for a ticker
DbUpdate(t, scn) ==
    /\ dbVersion < MaxDbUpdates
    /\ scn # db[t]
    /\ db' = [db EXCEPT ![t] = scn]
    /\ dbVersion' = dbVersion + 1
    /\ calls' = [c \in Callers |->
                   IF calls[c].pc = "fetching" /\ calls[c].ticker = t
                   THEN [calls[c] EXCEPT !.dbChanged = TRUE] ELSE calls[c]]
    /\ UNCHANGED <<now, pandasMajor, cache, numCalls, sessionVars, pureVars, frameworkVars,
                   pageVars>>

InitEnv ==
    /\ now = 0
    /\ db = [t \in Tickers |-> IF t \in CallTickers THEN "partial" ELSE "complete"]
    /\ dbVersion = 0
    /\ pandasMajor \in PandasMajors

\* Python's None
None == [none |-> TRUE]

\* framework_state.py lines 13-17: no framework is selected
NoFramework == [selected_framework_id |-> None, framework_metrics |-> <<>>]

\* no selection handler has run
NoEvent == [name |-> "", arg |-> ""]

InitSession ==
    /\ compare_list = <<>>
    /\ stocks = <<>>
    /\ time_period = "quarter"
    /\ selected_metrics = <<>>
    /\ all_metrics = <<>>
    /\ historical_data = <<>>
    /\ data_cache = <<>>
    /\ fetch_runs = 0
    /\ framework_metrics = <<>>
    /\ framework_state = NoFramework
    /\ last_event = NoEvent
    /\ is_loading_data = FALSE

\* no pure function has been applied
NotApplied == [applied |-> FALSE, value |-> <<>>]

InitPure ==
    /\ inTables = <<>>
    /\ inPeriod = "year"
    /\ outValue = NotApplied

InitCalls ==
    /\ InitEnv
    /\ pandasMajor \in CallsPandas
    /\ cache = <<>>
    /\ calls = [c \in Callers |-> IdleCall]
    /\ numCalls = 0
    /\ InitSession
    /\ InitPure

NextCalls ==
    \/ \E c \in Callers, t \in CallTickers, p \in PeriodModes : Call(c, t, p)
    \/ \E c \in Callers, failed \in FailSets : FetchAll(c, failed)
    \/ \E c \in Callers : Finish(c)
    \/ Tick
    \/ \E t \in CallTickers, scn \in Scenarios : DbUpdate(t, scn)

SpecCalls == InitCalls /\ [][NextCalls]_vars

----------------------------------------------------------------------------
(* Claims on the concurrent callers *)

\* caller c starts a call in this step
StartedNow(c) == numCalls' = numCalls + 1 /\ calls'[c].seq = numCalls + 1

\* caller c's gather returns and the call ends in this step
FinishedNow(c) == calls[c].pc = "fetching" /\ calls'[c].pc = "done"

\* every entry written is the (result, time) pair of a call that fetched and
\* returns in that step; nothing else changes the cache
EntriesWrittenWhole ==
    \A key \in DOMAIN cache' :
        (key \notin DOMAIN cache \/ cache'[key] # cache[key]) =>
            \E c \in Callers :
                /\ FinishedNow(c)
                /\ key = KeyOfCall(calls[c])
                /\ cache'[key] = [data |-> calls'[c].result, time |-> now]

\* C1 as stated: two calls of get_transformed_dataframes(t, p) made less than
\* 30 minutes apart return identical results and the second performs no fetch
C1_TwoCallsWithinTTL ==
    [][\A c, d \in Callers :
          (/\ StartedNow(c)
           /\ calls[d].pc = "done"
           /\ KeyOfCall(calls[d]) = KeyOfCall(calls'[c])
           /\ calls'[c].start - calls[d].start < CacheDuration)
          => (/\ ~calls'[c].fetched
              /\ calls'[c].pc = "done"
              /\ calls'[c].result = calls[d].result)]_vars

\* C1 amended: a call that starts less than 30 minutes after the latest store
\* for its key returns the stored result of that fetching call and performs
\* no fetch (the 30 minutes run from the store; error datasets are not stored)
C1_FreshEntryServed ==
    [][/\ \A c \in Callers :
            (/\ StartedNow(c)
             /\ KeyOfCall(calls'[c]) \in DOMAIN cache
             /\ now - cache[KeyOfCall(calls'[c])].time < CacheDuration)
            => (/\ calls'[c].pc = "done"
                /\ ~calls'[c].fetched
                /\ calls'[c].result = cache[KeyOfCall(calls'[c])].data
                /\ cache' = cache)
       /\ EntriesWrittenWhole]_vars

\* a call was served from an entry stored earlier
C1_Witness ==
    \E c \in Callers :
        /\ calls[c].pc = "done" /\ ~calls[c].fetched
        /\ KeyOfCall(calls[c]) \in DOMAIN cache
        /\ calls[c].start > cache[KeyOfCall(calls[c])].time
        /\ calls[c].result = cache[KeyOfCall(calls[c])].data

\* a call returns without fetching only from an entry younger than 30 minutes
ServedOnlyWhileYoung ==
    \A c \in Callers :
        (StartedNow(c) /\ calls'[c].pc = "done") =>
            /\ KeyOfCall(calls'[c]) \in DOMAIN cache
            /\ now - cache[KeyOfCall(calls'[c])].time < CacheDuration
            /\ calls'[c].result = cache[KeyOfCall(calls'[c])].data

\* the entry the call found was 30 minutes old or more when the call started
FoundStale(c) ==
    /\ KeyOfCall(calls[c]) \in DOMAIN cache
    /\ calls[c].start - cache[KeyOfCall(calls[c])].time >= CacheDuration

\* C2 as stated: an entry is served only while younger than 30 minutes; once
\* older, the next call re-fetches and replaces the whole entry; no entry is
\* modified in place
C2_StaleEntryReplaced ==
    [][/\ ServedOnlyWhileYoung
       /\ EntriesWrittenWhole
       /\ \A c \in Callers :
            (FinishedNow(c) /\ FoundStale(c)) =>
                /\ calls'[c].fetched
                /\ cache'[KeyOfCall(calls[c])] =
                       [data |-> calls'[c].result, time |-> now]]_vars

\* C2 amended: as stated, but the re-fetch replaces the entry only when the
\* re-fetched dataset carries no error; otherwise the stale entry stays
C2_StaleEntryReplacedOnSuccess ==
    [][/\ ServedOnlyWhileYoung
       /\ EntriesWrittenWhole
       /\ \A c \in Callers :
            (FinishedNow(c) /\ FoundStale(c)) =>
                /\ calls'[c].fetched
                /\ IF HasError(calls'[c].result)
                   THEN cache' = cache
                   ELSE cache'[KeyOfCall(calls[c])] =
                            [data |-> calls'[c].result, time |-> now]]_vars

\* a stale entry stored at time 0 has been replaced by a later re-fetch
C2_Witness ==
    \E c, d \in Callers :
        /\ c # d
        /\ calls[c].pc = "done" /\ calls[d].pc = "done"
        /\ calls[c].fetched /\ calls[d].fetched
        /\ KeyOfCall(calls[c]) = KeyOfCall(calls[d])
        /\ ~HasError(calls[c].result) /\ ~HasError(calls[d].result)
        /\ calls[d].seq < calls[c].seq
        /\ calls[c].start - calls[d].start >= CacheDuration
        /\ cache[KeyOfCall(calls[c])].time >= calls[c].start
        /\ cache[KeyOfCall(calls[c])].data = calls[c].result

\* the dataset has the fixed shape: the three statement lists and the six
\* category keys of categorized_ratios
WellShaped(result) ==
    /\ {"transformed_income_statement", "transformed_balance_sheet",
        "transformed_cash_flow", "categorized_ratios"} \subseteq DOMAIN result
    /\ DOMAIN result \subseteq
           {"transformed_income_statement", "transformed_balance_sheet",
            "transformed_cash_flow", "categorized_ratios", "error"}
    /\ DOMAIN result["categorized_ratios"] = Categories

\* two calls for one key that both missed the cache and ran concurrently,
\* with the source data unchanged and every query answered
ConcurrentPair(c, d) ==
    /\ c # d
    /\ calls[c].pc = "done" /\ calls[d].pc = "done"
    /\ calls[c].concurrent /\ calls[d].concurrent
    /\ KeyOfCall(calls[c]) = KeyOfCall(calls[d])
    /\ ~calls[c].dbChanged /\ ~calls[d].dbChanged
    /\ ~calls[c].faults /\ ~calls[d].faults

\* the cache holds the pair's result, written after both calls had started
EntryOfPair(c, d) ==
    /\ KeyOfCall(calls[c]) \in DOMAIN cache
    /\ cache[KeyOfCall(calls[c])].data = calls[c].result
    /\ cache[KeyOfCall(calls[c])].time >= calls[c].start
    /\ cache[KeyOfCall(calls[c])].time >= calls[d].start

IsErrorSkeleton(result) ==
    /\ WellShaped(result)
    /\ HasError(result)
    /\ \A cat \in Categories : result["categorized_ratios"][cat] = <<>>

\* C6: get_transformed_dataframes never raises: a call whose computation
\* raised returns the error skeleton, and every dataset returned has the six
\* fixed category keys
C6_NeverRaises ==
    \A c \in Callers :
        calls[c].pc = "done" =>
            /\ WellShaped(calls[c].result)
            /\ calls[c].raised => IsErrorSkeleton(calls[c].result)
            /\ HasError(calls[c].result) => IsErrorSkeleton(calls[c].result)

\* a call whose ratio computation raised has returned
C6_Witness ==
    \E c \in Callers :
        calls[c].pc = "done" /\ calls[c].raised /\ IsErrorSkeleton(calls[c].result)

\* the metric of each statement family that the modelled database holds in
\* the Per Share Value category
PerShareMetricOf(family) ==
    CASE family = "ratios" -> "EPS (VND)"
      [] family = "income" -> "Net Sales"
      [] family = "balance" -> "OWNER'S EQUITY(Bn.VND)"
      [] family = "cashflow" -> "Dividends paid"

\* the dataset joins the families: its Per Share Value records carry the
\* metric of every family that returned rows
JoinsFamilies(result, families) ==
    /\ Len(result["categorized_ratios"]["Per Share Value"]) > 0
    /\ \A f \in families :
           PerShareMetricOf(f) \in
               DOMAIN result["categorized_ratios"]["Per Share Value"][1]

----------------------------------------------------------------------------
(* pages/compare/state.py: StockComparisonState.  Text is a sequence of     *)
(* one-character strings, so that formatting a period label and parsing it  *)
(* back are computed.                                                       *)

Digits == <<"0", "1", "2", "3", "4", "5", "6", "7", "8", "9">>

IsDigit(ch) == \E d \in 1..10 : Digits[d] = ch

DigitVal(ch) == (CHOOSE d \in 1..10 : Digits[d] = ch) - 1

\* str(n) of a non-negative int
RECURSIVE IntStr(_)
IntStr(n) ==
    IF n < 10 THEN <<Digits[n + 1]>>
    ELSE IntStr(n \div 10) \o <<Digits[(n % 10) + 1]>>

\* a whole number held in a float64 column
Flt(x) == [k |-> "num", n |-> x, float |-> TRUE]

\* Series.astype(str) on one cell: "3" in an int64 column, "3.0" in a float64
\* column, "nan" for a null
AsStr(c) ==
    IF c.k = "num" /\ c.n >= 0
    THEN IntStr(c.n) \o (IF "float" \in DOMAIN c THEN <<".", "0">> ELSE <<>>)
    ELSE <<"n", "a", "n">>

\* str.isdigit()
IsDigitStr(s) == Len(s) > 0 /\ \A i \in DOMAIN s : IsDigit(s[i])

\* int(s) of a digit string
RECURSIVE ParseInt(_)
ParseInt(s) ==
    IF Len(s) = 0 THEN 0
    ELSE 10 * ParseInt(SubSeq(s, 1, Len(s) - 1)) + DigitVal(s[Len(s)])

\* lines 466-468 and 473: the period label of a category row
PeriodLabel(row, period) ==
    IF period = "quarter"
    THEN <<"Q">> \o AsStr(row["Quarter"]) \o <<" ">> \o AsStr(row["Year"])
    ELSE AsStr(row["Year"])

\* lines 501-507: quarter_sort_key; [raised, key], raised when int() raises
quarter_sort_key(p) ==
    LET spaces == {i \in DOMAIN p : p[i] = " "}
        sp == CHOOSE i \in spaces : TRUE
        first == SubSeq(p, 1, sp - 1)
        second == SubSeq(p, sp + 1, Len(p))
    IN  IF Cardinality(spaces) = 1 /\ Len(first) > 0 /\ Len(second) > 0
        THEN (IF IsDigitStr(Tail(first)) /\ IsDigitStr(second)
              THEN [raised |-> FALSE,
                    key |-> <<ParseInt(second), ParseInt(Tail(first))>>]
              ELSE [raised |-> TRUE, key |-> <<0, 0>>])
        ELSE [raised |-> FALSE, key |-> <<0, 0>>]

\* line 512: the sort key of a year label
year_sort_key(p) ==
    [raised |-> FALSE, key |-> <<IF IsDigitStr(p) THEN ParseInt(p) ELSE 0, 0>>]

period_sort_key(p, period) ==
    IF period = "quarter" THEN quarter_sort_key(p) ELSE year_sort_key(p)

\* the labels left in the order met
SortedPeriods_AsMet(labels, period) == labels

\* sorted(unique_periods, key=...): stable, ascending
RECURSIVE SortedPeriods(_, _)
SortedPeriods(labels, period) ==
    IF Len(labels) <= 1 THEN labels
    ELSE LET rest == SortedPeriods(Tail(labels), period)
             k == period_sort_key(Head(labels), period).key
             before == SelectSeq(rest,
                           LAMBDA x : KeyLess(period_sort_key(x, period).key, k))
             after == SelectSeq(rest,
                           LAMBDA x : ~KeyLess(period_sort_key(x, period).key, k))
         IN  before \o <<Head(labels)>> \o after

\* list(dict.fromkeys(labels)): the first occurrence of each label, in order
RECURSIVE UniqueSeq(_)
UniqueSeq(labels) ==
    IF Len(labels) = 0 THEN <<>>
    ELSE LET init == UniqueSeq(SubSeq(labels, 1, Len(labels) - 1))
             last == labels[Len(labels)]
         IN  IF last \in Range(init) THEN init ELSE Append(init, last)

\* the (Year, Quarter) key of a category record
RecordKey(rec) ==
    <<rec["Year"].n, IF "Quarter" \in DOMAIN rec THEN rec["Quarter"].n ELSE 0>>

\* df.sort_values(by=[...], ascending=False) on the records of a category
RECURSIVE SortRecordsDesc(_)
SortRecordsDesc(recs) ==
    IF Len(recs) <= 1 THEN recs
    ELSE LET rest == SortRecordsDesc(Tail(recs))
             r == Head(recs)
             before == SelectSeq(rest, LAMBDA x : KeyLess(RecordKey(r), RecordKey(x)))
             after == SelectSeq(rest, LAMBDA x : ~KeyLess(RecordKey(r), RecordKey(x)))
         IN  before \o <<r>> \o after

\* a head() that keeps every row
HeadRows_All(recs, n) == recs

\* df.head(n)
HeadRows(recs, n) == SubSeq(recs, 1, IF Len(recs) < n THEN Len(recs) ELSE n)

\* line 443
MaxPeriodsQuarter == 8
MaxPeriodsYear == 4

max_periods(period) ==
    IF period = "quarter" THEN MaxPeriodsQuarter ELSE MaxPeriodsYear

\* the order in which _categorize_ratios fills the categories
CategoryOrder ==
    <<"Per Share Value", "Profitability", "Valuation", "Leverage & Liquidity",
      "Efficiency", "Growth Rate">>

\* the columns of pd.DataFrame(category_data)
RecordColumns(recs) == UNION {DOMAIN recs[i] : i \in DOMAIN recs}

\* line 458: pd.DataFrame(category_data); a record that lacks a column holds
\* a null there, and a Quarter column that holds a null is a float64 column
DataFrameOf(recs) ==
    LET cols == RecordColumns(recs)
        holes == \E i \in DOMAIN recs :
                     "Quarter" \notin DOMAIN recs[i] \/ ~NotNa(recs[i]["Quarter"])
    IN  IF \A i \in DOMAIN recs : DOMAIN recs[i] = cols /\ ~holes THEN recs
        ELSE Listed([i \in DOMAIN recs |->
                 Tabulated([c \in cols |->
                     IF c \notin DOMAIN recs[i] THEN NaN
                     ELSE IF c = "Quarter" /\ holes /\ recs[i][c].k = "num"
                          THEN Flt(recs[i][c].n)
                     ELSE recs[i][c]])])

\* lines 463-465 and 471-472: the category is of the granularity time_period
GranularityMatches(recs, period) ==
    IF period = "quarter" THEN "Quarter" \in RecordColumns(recs)
    ELSE "Quarter" \notin RecordColumns(recs)

\* lines 454-476: the rows of one category that enter the series, most recent
\* first; none when the category's granularity is not time_period
CategoryRows(recs, period) ==
    IF Len(recs) = 0 THEN <<>>
    ELSE IF ~GranularityMatches(recs, period) THEN <<>>
    ELSE HeadRows(SortRecordsDesc(DataFrameOf(recs)), max_periods(period))

\* whether ticker_data[t] is skipped at line 449
NoData(entry) == entry = None \/ "categorized_ratios" \notin DOMAIN entry.data

\* lines 452-476 for one ticker: per category, the rows that enter the series
TickerRows(entry, period) ==
    Tabulated([c \in Categories |->
                  IF NoData(entry) THEN <<>>
                  ELSE CategoryRows(entry.data["categorized_ratios"][c], period)])

\* the labels of the rows of one ticker, category by category
TickerLabels(rows, period) ==
    LET labels == Tabulated([c \in Categories |->
                      Listed([j \in 1..Len(rows[c]) |->
                                 PeriodLabel(rows[c][j], period)])])
    IN  labels[CategoryOrder[1]] \o labels[CategoryOrder[2]]
            \o labels[CategoryOrder[3]] \o labels[CategoryOrder[4]]
            \o labels[CategoryOrder[5]] \o labels[CategoryOrder[6]]

\* lines 448-494: the labels met, in the order met
RECURSIVE AllPeriods(_, _, _)
AllPeriods(rowsOf, order, period) ==
    IF Len(order) = 0 THEN <<>>
    ELSE TickerLabels(rowsOf[Head(order)], period)
             \o AllPeriods(rowsOf, Tail(order), period)

\* metrics_by_ticker_period[t][label]: the non-null values of the rows that
\* carry the label, over all categories (the rows of one label hold the same
\* value for a metric: they come from one row of the combined frame)
TickerValues(rows, label, period) ==
    LET hits == {r \in UNION {Range(rows[c]) : c \in Categories} :
                    PeriodLabel(r, period) = label}
        names == {m \in UNION {DOMAIN r : r \in hits} \ {"Year", "Quarter", "period"} :
                     \E r \in hits : m \in DOMAIN r /\ NotNa(r[m])}
    IN  Tabulated([m \in names |->
                      (CHOOSE r \in hits : m \in DOMAIN r /\ NotNa(r[m]))[m]])

\* a series that holds a record for every period met
has_data_Always(holders) == TRUE

\* lines 528-541: has_data, holders the tickers with a value in the period
has_data(holders) == holders # {}

\* lines 439-546: _extract_historical_data; order is the insertion order of
\* ticker_data, metrics the metrics_to_process; [raised, value]
_extract_historical_data(tdata, order, period, metrics, list) ==
    With(Tabulated([t \in DOMAIN tdata |-> TickerRows(tdata[t], period)]),
         LAMBDA rowsOf :
    With(UniqueSeq(AllPeriods(rowsOf, order, period)), LAMBDA unique_periods :
    With(Tabulated([t \in DOMAIN tdata |->
             Tabulated([l \in Range(unique_periods) |->
                           TickerValues(rowsOf[t], l, period)])]),
         LAMBDA values :
    With(Tabulated([m \in metrics |->
             Tabulated([l \in Range(unique_periods) |->
                           {t \in Range(list) \cap DOMAIN tdata :
                               m \in DOMAIN values[t][l]}])]),
         LAMBDA holders :
    LET sorted_periods == SortedPeriods(unique_periods, period)
        period_obj(m, label) ==
            Tabulated([k \in {"period"} \cup holders[m][label] |->
                          IF k = "period" THEN label ELSE values[k][label][m]])
        metric_data(m) ==
            LET with_data == SelectSeq(sorted_periods,
                                       LAMBDA l : has_data(holders[m][l]))
            IN  Listed([i \in 1..Len(with_data) |->
                           period_obj(m, with_data[i])])
    IN  IF \E i \in DOMAIN unique_periods :
               period_sort_key(unique_periods[i], period).raised
        THEN [raised |-> TRUE, value |-> <<>>]
        ELSE [raised |-> FALSE,
              value |-> Tabulated([m \in metrics |-> metric_data(m)])]))))

\* lines 281-301: the catalog read off one dataset, category -> metric names
_extract_all_metrics(data, old) ==
    IF "categorized_ratios" \notin DOMAIN data THEN old
    ELSE LET cr == data["categorized_ratios"]
             filled == {c \in DOMAIN cr : Len(cr[c]) > 0}
         IN  Tabulated([c \in filled |->
                           RecordColumns(cr[c]) \ {"Year", "Quarter", "period"}])

\* lines 72-84: all_available_metrics (no framework filter is active)
all_available_metrics(allm) == UNION {allm[c] : c \in DOMAIN allm}

\* a handler that takes every gathered result for a dataset
IsFailedResult_Never(result) == FALSE

\* lines 416-418: the ticker's fetch failed
IsFailedResult(result) == HasError(result)

\* get_transformed_dataframes(t, p) awaited to its end: [result, cache,
\* fetched], fetched the time at which the result was read from the database
get_transformed_dataframes(c, t, p, queryFails, d, tm, pd) ==
    LET key == cache_key(t, p)
    IN  IF CacheHit(c, key, tm)
        THEN [result |-> c[key].data, cache |-> c, fetched |-> c[key].time]
        ELSE With(TransformFrames(
                      FetchedFrames(d[t], p, IF queryFails THEN {"ratios"} ELSE {}),
                      p, pd),
                  LAMBDA result :
                      [result |-> result,
                       cache |-> IF StoresResult(result)
                                 THEN CachePut(c, key, result, tm) ELSE c,
                       fetched |-> tm])

\* line 413: the gathered calls, one per ticker to fetch
RECURSIVE GatherResults(_, _, _, _, _, _, _)
GatherResults(tickers, c, p, failing, d, tm, pd) ==
    IF Len(tickers) = 0 THEN [results |-> <<>>, cache |-> c]
    ELSE With(get_transformed_dataframes(c, Head(tickers), p,
                                         Head(tickers) \in failing, d, tm, pd),
              LAMBDA o :
         With(GatherResults(Tail(tickers), o.cache, p, failing, d, tm, pd),
              LAMBDA rest :
                  [results |-> <<[data |-> o.result, fetched |-> o.fetched]>>
                                   \o rest.results,
                   cache |-> rest.cache]))

\* the catalog after the loop of lines 415-427: each stored result overwrites it
RECURSIVE CatalogAfter(_, _)
CatalogAfter(results, old) ==
    IF Len(results) = 0 THEN old
    ELSE CatalogAfter(Tail(results),
                      IF IsFailedResult(Head(results).data) THEN old
                      ELSE _extract_all_metrics(Head(results).data, old))

\* lines 400-405: the tickers of the list that are not in _data_cache
TickersToFetch(list, p, dcache) ==
    SelectSeq(list, LAMBDA t : cache_key(t, p) \notin DOMAIN dcache)

\* lines 389-437: fetch_historical_data on compare_list = list; the values it
\* leaves in historical_data, _data_cache, all_metrics, the module cache and
\* its local ticker_data
fetch_historical_data(list, p, dcache, c, sel, allm, failing, d, tm, pd) ==
    With(TickersToFetch(list, p, dcache), LAMBDA tickers_to_fetch :
    With(GatherResults(tickers_to_fetch, c, p, failing, d, tm, pd), LAMBDA g :
    LET cached == SelectSeq(list, LAMBDA t : cache_key(t, p) \in DOMAIN dcache)
        idx(t) == CHOOSE i \in DOMAIN tickers_to_fetch : tickers_to_fetch[i] = t
        stored == {t \in Range(tickers_to_fetch) :
                      ~IsFailedResult(g.results[idx(t)].data)}
        new_cache ==
            Tabulated(
                [k \in DOMAIN dcache \cup {cache_key(t, p) : t \in stored} |->
                    IF k \in DOMAIN dcache THEN dcache[k]
                    ELSE g.results[idx(CHOOSE t \in stored : cache_key(t, p) = k)]])
        tdata == Tabulated(
                     [t \in Range(list) |->
                         IF cache_key(t, p) \in DOMAIN dcache
                         THEN dcache[cache_key(t, p)]
                         ELSE IF t \in stored THEN g.results[idx(t)]
                         ELSE None])
        new_all == CatalogAfter(g.results, allm)
        metrics == IF Len(sel) > 0 THEN Range(sel) ELSE all_available_metrics(new_all)
    IN  With(_extract_historical_data(tdata, cached \o tickers_to_fetch, p,
                                      metrics, list),
             LAMBDA hist :
                 [historical_data |-> IF hist.raised THEN <<>> ELSE hist.value,
                  data_cache |-> new_cache,
                  all_metrics |-> new_all,
                  cache |-> g.cache,
                  ticker_data |-> tdata])))

----------------------------------------------------------------------------
(* The metric selection of the compare page and the framework filter.  A    *)
(* catalog (all_metrics, framework_metrics) maps a category to the list of  *)
(* its metric names; the session above keeps of each list of all_metrics    *)
(* the set of its names only, no handler there reads their order.           *)

\* a handler that appends the metric whether it is selected or not
toggle_metric_Append(selected, metric) == Append(selected, metric)

\* lines 303-309: toggle_metric
toggle_metric(selected, metric) ==
    IF metric \in Range(selected)
    THEN SelectSeq(selected, LAMBDA x : x # metric)
    ELSE Append(selected, metric)

\* a view that shows the framework's catalog only
available_metrics_by_category_FrameworkOnly(fm, allm) == fm

\* lines 71-76: available_metrics_by_category
available_metrics_by_category(fm, allm) ==
    IF DOMAIN fm # {} THEN fm ELSE allm

\* a handler that flips each metric of the category
toggle_category_Each(selected, view, category) ==
    LET category_metrics ==
            IF category \in DOMAIN view THEN view[category] ELSE <<>>
    IN  SelectSeq(selected, LAMBDA x : x \notin Range(category_metrics))
            \o SelectSeq(category_metrics, LAMBDA x : x \notin Range(selected))

\* lines 311-325: toggle_category on the current view
toggle_category(selected, view, category) ==
    LET category_metrics ==
            IF category \in DOMAIN view THEN view[category] ELSE <<>>
        all_selected == \A i \in DOMAIN category_metrics :
                            category_metrics[i] \in Range(selected)
    IN  IF all_selected
        THEN SelectSeq(selected, LAMBDA x : x \notin Range(category_metrics))
        ELSE selected
                 \o SelectSeq(category_metrics, LAMBDA x : x \notin Range(selected))

\* the characters of the names that are matched
Spelling(name) ==
    CASE name = "ROE (%)" -> <<"R", "O", "E", " ", "(", "%", ")">>
      [] name = "EBITDA (Bn. VND)" ->
             <<"E", "B", "I", "T", "D", "A", " ", "(", "B", "n", ".", " ",
               "V", "N", "D", ")">>
      [] name = "P/E" -> <<"P", "/", "E">>
      [] name = "EV/EBITDA" -> <<"E", "V", "/", "E", "B", "I", "T", "D", "A">>
      [] name = " p/e " -> <<" ", "p", "/", "e", " ">>
      [] name = "EBITDA" -> <<"E", "B", "I", "T", "D", "A">>
      [] name = "Dividend Yield" ->
             <<"D", "i", "v", "i", "d", "e", "n", "d", " ", "Y", "i", "e", "l", "d">>
      [] name = "Days Sales Outstanding" ->
             <<"D", "a", "y", "s", " ", "S", "a", "l", "e", "s", " ", "O",
               "u", "t", "s", "t", "a", "n", "d", "i", "n", "g">>
      [] name = "Days Inventory Outstanding" ->
             <<"D", "a", "y", "s", " ", "I", "n", "v", "e", "n", "t", "o",
               "r", "y", " ", "O", "u", "t", "s", "t", "a", "n", "d", "i",
               "n", "g">>
      [] name = "Days Payable Outstanding" ->
             <<"D", "a", "y", "s", " ", "P", "a", "y", "a", "b", "l", "e",
               " ", "O", "u", "t", "s", "t", "a", "n", "d", "i", "n", "g">>
      [] name = "Gross Profit Margin (%)" ->
             <<"G", "r", "o", "s", "s", " ", "P", "r", "o", "f", "i", "t",
               " ", "M", "a", "r", "g", "i", "n", " ", "(", "%", ")">>
      [] name = "EPS (VND)" ->
             <<"E", "P", "S", " ", "(", "V", "N", "D", ")">>
      [] name = "Net Sales" ->
             <<"N", "e", "t", " ", "S", "a", "l", "e", "s">>
      [] name = "Current Ratio" ->
             <<"C", "u", "r", "r", "e", "n", "t", " ", "R", "a", "t", "i",
               "o">>
      [] name = "Cash Cycle" ->
             <<"C", "a", "s", "h", " ", "C", "y", "c", "l", "e">>
      [] name = "Revenue YoY" ->
             <<"R", "e", "v", "e", "n", "u", "e", " ", "Y", "o", "Y">>
      [] name = "(%)" ->
             <<"(", "%", ")">>
      [] name = "Margin" ->
             <<"M", "a", "r", "g", "i", "n">>
      [] name = "YoY" ->
             <<"Y", "o", "Y">>
      [] name = "(VND)" ->
             <<"(", "V", "N", "D", ")">>
      [] name = "(Bn. VND)" ->
             <<"(", "B", "n", ".", " ", "V", "N", "D", ")">>
      [] name = "Sales" ->
             <<"S", "a", "l", "e", "s">>
      [] name = "Days" ->
             <<"D", "a", "y", "s">>
      [] name = "P/" ->
             <<"P", "/">>
      [] name = "Ratio" ->
             <<"R", "a", "t", "i", "o">>
      [] name = "/" ->
             <<"/">>
      [] name = "N/A" ->
             <<"N", "/", "A">>

UpperLetters ==
    <<"A", "B", "C", "D", "E", "F", "G", "H", "I", "J", "K", "L", "M",
      "N", "O", "P", "Q", "R", "S", "T", "U", "V", "W", "X", "Y", "Z">>

LowerLetters ==
    <<"a", "b", "c", "d", "e", "f", "g", "h", "i", "j", "k", "l", "m",
      "n", "o", "p", "q", "r", "s", "t", "u", "v", "w", "x", "y", "z">>

\* str.lower()
Lower(s) ==
    [i \in DOMAIN s |->
        IF \E j \in DOMAIN UpperLetters : UpperLetters[j] = s[i]
        THEN LowerLetters[CHOOSE j \in DOMAIN UpperLetters : UpperLetters[j] = s[i]]
        ELSE s[i]]

\* str.strip()
Strip(s) ==
    LET inked == {i \in DOMAIN s : s[i] # " "}
    IN  IF inked = {} THEN <<>>
        ELSE SubSeq(s, CHOOSE i \in inked : \A j \in inked : i <= j,
                       CHOOSE i \in inked : \A j \in inked : j <= i)

\* lines 573 and 578: str(name).strip().lower()
Normalized(name) == Listed(Lower(Strip(Spelling(name))))

\* sub in s
Contains(s, sub) ==
    \E i \in 0..(Len(s) - Len(sub)) : SubSeq(s, i + 1, i + Len(sub)) = sub

\* line 581: fw_name in db_name or db_name in fw_name
NameMatches(framework_name, db_metric) ==
    \/ Contains(Normalized(db_metric), Normalized(framework_name))
    \/ Contains(Normalized(framework_name), Normalized(db_metric))

\* the order of all_metrics.items(): the order in which _extract_all_metrics
\* met the categories
CatalogOrder(allm) == SelectSeq(CategoryOrder, LAMBDA c : c \in DOMAIN allm)

\* lines 577-583: the metrics one category appends for a framework name; the
\* break ends the loop over the metrics of this category
MatchInCategory(framework_name, db_metrics) ==
    LET hits == SelectSeq(db_metrics, LAMBDA d : NameMatches(framework_name, d))
    IN  IF Len(hits) = 0 THEN <<>> ELSE <<hits[1]>>

\* lines 576-583: the metrics appended for a framework name; the loop over
\* the categories runs to its end
RECURSIVE MatchesOfName(_, _, _)
MatchesOfName(framework_name, allm, categories) ==
    IF Len(categories) = 0 THEN <<>>
    ELSE MatchInCategory(framework_name, allm[Head(categories)])
             \o MatchesOfName(framework_name, allm, Tail(categories))

\* lines 569-583: matched_metrics of one framework category
RECURSIVE matched_metrics(_, _)
matched_metrics(framework_metric_names, allm) ==
    IF Len(framework_metric_names) = 0 THEN <<>>
    ELSE MatchesOfName(Head(framework_metric_names), allm, CatalogOrder(allm))
             \o matched_metrics(Tail(framework_metric_names), allm)

\* list(set(...)): the lists that hold each element of S once, in any order
ListsOfSet(S) ==
    {q \in [1..Cardinality(S) -> S] : Range(q) = S}

\* lines 563-586: framework_categories as category -> set(matched_metrics)
MatchedSets(fw_metrics, allm) ==
    LET matched == Tabulated([c \in DOMAIN fw_metrics |->
                                 Range(matched_metrics(fw_metrics[c], allm))])
    IN  Tabulated([c \in {d \in DOMAIN fw_metrics : matched[d] # {}} |->
                      matched[c]])

\* a catalog whose lists hold the sets of sets
IsListingOf(catalog, sets) ==
    /\ DOMAIN catalog = DOMAIN sets
    /\ \A c \in DOMAIN sets : catalog[c] \in ListsOfSet(sets[c])

\* the names of a catalog
CatalogNames(catalog) == UNION {Range(catalog[c]) : c \in DOMAIN catalog}

----------------------------------------------------------------------------
(* One session of the compare page.  A handler runs to its end in one step  *)
(* (the session's state is locked while a handler runs); failing is the set *)
(* of tickers whose ratios query raises during the step.                    *)

MaxSessionTicks == 1

\* the session awaits fetch_historical_data at most this many times
MaxFetchRuns == 2

\* the session's clock advances by one and a half cache durations
SessionTickMinutes == CacheDuration + TickMinutes

\* the metrics the user toggles
ToggledMetrics == {"EPS (VND)"}

\* the outcomes of the overview lookup of add_ticker_to_compare
Lookups == {"found", "missing", "raises"}

\* the await of fetch_historical_data inside a handler
RunFetch(list, p, failing) ==
    IF Len(list) = 0
    THEN /\ failing = {}
         /\ UNCHANGED <<historical_data, data_cache, all_metrics, cache, fetch_runs>>
    ELSE /\ fetch_runs < MaxFetchRuns
         /\ failing \subseteq Range(TickersToFetch(list, p, data_cache))
         /\ \E o \in {fetch_historical_data(list, p, data_cache, cache,
                                            selected_metrics, all_metrics, failing,
                                            db, now, pandasMajor)} :
             /\ historical_data' = o.historical_data
             /\ data_cache' = o.data_cache
             /\ all_metrics' = o.all_metrics
             /\ cache' = o.cache
             /\ fetch_runs' = fetch_runs + 1

\* history: the tickers whose fetch failed in the last run and that this run
\* stores in _data_cache, at the same granularity
Recovered(list, p) ==
    {t \in Range(list) :
        /\ "failing" \in DOMAIN last_event
        /\ t \in last_event.failing
        /\ last_event.period = p
        /\ cache_key(t, p) \in DOMAIN data_cache' \ DOMAIN data_cache}

\* lines 388-437, as an event of its own
FetchHistoricalData(failing) ==
    /\ Len(compare_list) > 0
    /\ RunFetch(compare_list, time_period, failing)
    /\ last_event' = [name |-> "fetch_historical_data", arg |-> "",
                      failing |-> failing, period |-> time_period,
                      recovered |-> Recovered(compare_list, time_period)]
    /\ UNCHANGED <<compare_list, stocks, time_period, selected_metrics,
                   calls, numCalls, envVars, pureVars, framework_metrics,
                   framework_state, pageVars>>

\* lines 677-681
ToggleTimePeriod(checked, failing) ==
    /\ time_period' = IF checked THEN "year" ELSE "quarter"
    /\ RunFetch(compare_list, time_period', failing)
    /\ last_event' = [name |-> "toggle_time_period", arg |-> time_period',
                      failing |-> failing, period |-> time_period',
                      recovered |-> Recovered(compare_list, time_period')]
    /\ UNCHANGED <<compare_list, stocks, selected_metrics,
                   calls, numCalls, envVars, pureVars, framework_metrics,
                   framework_state, pageVars>>

\* a handler that leaves the ticker in compare_list when its lookup finds no
\* overview row or raises
add_ticker_to_compare_KeepsTicker(list, stock_list, loading, ticker, lookup) ==
    IF ticker \in Range(list)
    THEN [compare_list |-> list, stocks |-> stock_list,
          is_loading_data |-> loading, fetches |-> FALSE, outcome |-> "duplicate"]
    ELSE [compare_list |-> Append(list, ticker),
          stocks |-> IF lookup = "found" THEN Append(stock_list, ticker)
                     ELSE stock_list,
          is_loading_data |-> FALSE, fetches |-> lookup = "found",
          outcome |-> lookup]

\* lines 622-665 without the await of fetch_historical_data: the lists and
\* the flag the handler leaves, whether it awaits the fetch, and its toast
add_ticker_to_compare(list, stock_list, loading, ticker, lookup) ==
    IF ticker \in Range(list)
    THEN [compare_list |-> list, stocks |-> stock_list,
          is_loading_data |-> loading, fetches |-> FALSE, outcome |-> "duplicate"]
    ELSE LET appended == Append(list, ticker)
             removed == SelectSeq(appended, LAMBDA t : t # ticker)
         IN  [compare_list |-> IF lookup = "found" THEN appended ELSE removed,
              stocks |-> IF lookup = "found" THEN Append(stock_list, ticker)
                         ELSE stock_list,
              is_loading_data |-> FALSE, fetches |-> lookup = "found",
              outcome |-> lookup]

\* lines 622-665
AddTickerToCompare(t, lookup, failing) ==
    /\ \E o \in {add_ticker_to_compare(compare_list, stocks, is_loading_data,
                                       t, lookup)} :
           /\ compare_list' = o.compare_list
           /\ stocks' = o.stocks
           /\ is_loading_data' = o.is_loading_data
           /\ IF o.fetches
              THEN RunFetch(compare_list', time_period, failing)
              ELSE /\ failing = {}
                   /\ UNCHANGED <<historical_data, data_cache, all_metrics,
                                  cache, fetch_runs>>
           /\ last_event' = [name |-> "add_ticker_to_compare", arg |-> t,
                             outcome |-> o.outcome, failing |-> failing,
                             period |-> time_period,
                             recovered |-> Recovered(compare_list', time_period)]
    /\ UNCHANGED <<time_period, selected_metrics, calls, numCalls, envVars,
                   pureVars, framework_metrics, framework_state>>

\* lines 337-341
RemoveStockFromCompare(t) ==
    /\ t \in Range(compare_list) \cup Range(stocks)
    /\ compare_list' = SelectSeq(compare_list, LAMBDA x : x # t)
    /\ stocks' = SelectSeq(stocks, LAMBDA x : x # t)
    /\ last_event' = [name |-> "remove_stock_from_compare", arg |-> t]
    /\ UNCHANGED <<time_period, selected_metrics, all_metrics, historical_data,
                   data_cache, fetch_runs, callVars, envVars, pureVars,
                   framework_metrics, framework_state, pageVars>>

\* cart_state.py lines 58-66: the tickers of the cart, none of them twice
Carts == {<<>>, <<"AAA">>, <<"BBB", "AAA">>}

\* lines 343-350
ImportCartToCompare(cart) ==
    /\ compare_list' = cart
    /\ last_event' = [name |-> "import_cart_to_compare", arg |-> ""]
    /\ UNCHANGED <<stocks, time_period, selected_metrics, all_metrics,
                   historical_data, data_cache, fetch_runs, callVars, envVars,
                   pureVars, framework_metrics, framework_state, pageVars>>

\* lines 303-309
ToggleMetric(m) ==
    /\ selected_metrics' = toggle_metric(selected_metrics, m)
    /\ last_event' = [name |-> "toggle_metric", arg |-> m]
    /\ UNCHANGED <<compare_list, stocks, time_period, all_metrics, historical_data,
                   data_cache, fetch_runs, callVars, envVars, pureVars,
                   framework_metrics, framework_state, pageVars>>

\* time passes in the session
SessionTick ==
    /\ now + SessionTickMinutes <= MaxSessionTicks * SessionTickMinutes
    /\ now' = now + SessionTickMinutes
    /\ UNCHANGED <<db, dbVersion, pandasMajor, callVars, sessionVars, pureVars, frameworkVars,
                   pageVars>>

Init ==
    /\ InitEnv
    /\ pandasMajor \in CallsPandas
    /\ cache = <<>>
    /\ calls = [c \in Callers |-> IdleCall]
    /\ numCalls = 0
    /\ InitSession
    /\ InitPure

Next ==
    \/ \E failing \in SUBSET Tickers : FetchHistoricalData(failing)
    \/ \E checked \in BOOLEAN, failing \in SUBSET Tickers :
           ToggleTimePeriod(checked, failing)
    \/ \E t \in Tickers, lookup \in Lookups, failing \in SUBSET Tickers :
           AddTickerToCompare(t, lookup, failing)
    \/ \E t \in Tickers : RemoveStockFromCompare(t)
    \/ \E m \in ToggledMetrics : ToggleMetric(m)
    \/ SessionTick

Spec == Init /\ [][Next]_vars

----------------------------------------------------------------------------
(* The session's datasets.                                                  *)

\* the step awaited fetch_historical_data past its empty-list return
FetchRan == fetch_runs' # fetch_runs

\* the datasets the run of this step read: one per compared ticker that has
\* an entry of the period's granularity in _data_cache when the run ends
UsedKeys ==
    {cache_key(compare_list'[i], time_period') : i \in DOMAIN compare_list'}
        \cap DOMAIN data_cache'

\* C3: every (ticker, granularity) dataset a run of fetch_historical_data
\* uses to build historical_data was read from the database at most
\* CacheDuration minutes before the run; an older one is fetched again.
C3_DatasetsWithinTTL ==
    [][FetchRan =>
          \A k \in UsedKeys : now - data_cache'[k].fetched <= CacheDuration]_vars

\* the compared tickers whose fetch failed in the run of this step.
\* get_transformed_dataframes stores every result but an error payload, so a
\* fetch of the run failed when it leaves no entry of the run's time or
\* younger than CacheDuration in the module cache
FailedTickers ==
    {t \in Range(TickersToFetch(compare_list', time_period', data_cache)) :
        ~CacheHit(cache', cache_key(t, time_period'), now)}

\* the ticker keys of the records of a historical_data value
SeriesTickers(hd) ==
    UNION {UNION {DOMAIN hd[m][i] \ {"period"} : i \in DOMAIN hd[m]} :
              m \in DOMAIN hd}

\* the same run from the same state on the list without the failed tickers
RunWithoutFailed ==
    fetch_historical_data(
        SelectSeq(compare_list', LAMBDA t : t \notin FailedTickers),
        time_period', data_cache, cache, selected_metrics, all_metrics, {},
        db, now, pandasMajor)

\* C4: in a run of fetch_historical_data in which the fetch of some compared
\* tickers fails, the run ends, the failed tickers are in no record of
\* historical_data, and historical_data (with the session's datasets and
\* catalog) is what the run leaves when the failed tickers are not in the
\* list.
C4_FailuresIsolated ==
    [][(FetchRan /\ FailedTickers # {}) =>
          /\ SeriesTickers(historical_data') \cap FailedTickers = {}
          /\ FailedTickers # Range(compare_list') =>
                 \E alt \in {RunWithoutFailed} :
                     /\ historical_data' = alt.historical_data
                     /\ data_cache' = alt.data_cache
                     /\ all_metrics' = alt.all_metrics
                     /\ cache' = alt.cache]_vars

\* a run has ended with one compared ticker failed and the other one's
\* values in the series
C4_Witness ==
    /\ fetch_runs > 0
    /\ \E t \in Range(compare_list) :
           /\ cache_key(t, time_period) \notin DOMAIN data_cache
           /\ \E u \in Range(compare_list) \ {t} :
                  /\ cache_key(u, time_period) \in DOMAIN data_cache
                  /\ u \in SeriesTickers(historical_data)

----------------------------------------------------------------------------
(* _categorize_ratios applied to the frames the four fetches return.        *)

\* a statement family holds rows for at most this many of the periods
MaxFamilyPeriods == 2

\* the metric a family's rows carry
FamilyMetric(fam) ==
    CASE fam = "ratios" -> "P/E"
      [] fam = "income" -> "Net Sales"
      [] fam = "balance" -> "OWNER'S EQUITY(Bn.VND)"
      [] fam = "cashflow" -> "Dividends paid"

\* the frames of a ticker whose family fam holds rows for the periods idxs[fam]
FamilyFrames(period, idxs) ==
    Tabulated([fam \in FamilyNames |->
                  FetchFamily(MetricFacts(period, FamilyMetric(fam), idxs[fam], 1),
                              period, FALSE)])

InitOthers ==
    /\ InitEnv
    /\ cache = <<>>
    /\ calls = [c \in Callers |-> IdleCall]
    /\ numCalls = 0
    /\ InitSession

InitCategorize ==
    /\ InitOthers
    /\ inPeriod \in PeriodModes
    /\ \E idxs \in [FamilyNames -> SUBSET (1..MaxFamilyPeriods)] :
           inTables = FamilyFrames(inPeriod, idxs)
    /\ outValue = NotApplied

\* lines 74-76: categorized_ratios = _categorize_ratios(ratios_df, period, ...)
Categorize ==
    /\ ~outValue.applied
    /\ outValue' = [applied |-> TRUE,
                    value |-> _categorize_ratios(
                                  inTables["ratios"], inPeriod, inTables["income"],
                                  inTables["balance"], inTables["cashflow"],
                                  pandasMajor)]
    /\ UNCHANGED <<inTables, inPeriod, envVars, callVars, sessionVars,
                   frameworkVars, pageVars>>

NextCategorize == Categorize

SpecCategorize == InitCategorize /\ [][NextCategorize]_vars

\* the period keys of the rows of a frame
FrameKeys(df) == {KeyOf(df.rows[i]) : i \in DOMAIN df.rows}

\* C8: _categorize_ratios returns, the period keys of its merged table are the
\* union of the period keys of the non-empty source tables, and every
\* non-empty category has one record per period of that union, null in each
\* metric whose source table has no row for the period.
C8_PeriodUnion ==
    outValue.applied =>
        LET sources == {f \in FamilyNames : ~IsEmptyDF(inTables[f])}
            union == UNION {FrameKeys(inTables[f]) : f \in sources}
            cr == outValue.value
        IN  /\ ~cr.raised
            /\ \A c \in Categories :
                   LET recs == cr.value[c]
                   IN  Len(recs) > 0 =>
                          /\ Len(recs) = Cardinality(union)
                          /\ {RecordKey(recs[i]) : i \in DOMAIN recs} = union
                          /\ \A i \in DOMAIN recs, f \in sources :
                                 \A m \in ((DOMAIN recs[i]) \cap inTables[f].cols)
                                              \ {"Year", "Quarter"} :
                                     RecordKey(recs[i]) \notin FrameKeys(inTables[f])
                                         => recs[i][m] = NaN

----------------------------------------------------------------------------
(* _compute_growth_rates applied to a table of one to MaxGrowthRows periods. *)

MaxGrowthRows == 2

\* the metric columns of the tables drawn
GrowthColumnSets == {{"P/E"}, {"Net Sales"}, {"Net Sales", "EPS (VND)"}}

\* the cells of the tables drawn
GrowthCells == {NaN, Num(0), Num(1), Num(2)}

\* a table of n periods, latest first, with the metric cells of f
GrowthTable(period, metrics, n, f) ==
    LET timeCols == IF period = "quarter" THEN {"period", "year", "quarter"}
                    ELSE {"year"}
        key(i) == PeriodKeysOf(period)[n + 1 - i]
    IN  [cols |-> timeCols \cup metrics,
         rows |-> Listed([i \in 1..n |->
                     Tabulated([c \in timeCols \cup metrics |->
                         IF c = "year" THEN Num(key(i)[1])
                         ELSE IF c = "quarter" THEN Num(key(i)[2])
                         ELSE IF c = "period" THEN Txt
                         ELSE f[<<i, c>>]])])]

InitGrowth ==
    /\ InitOthers
    /\ inPeriod \in PeriodModes
    /\ \E metrics \in GrowthColumnSets, n \in 1..MaxGrowthRows :
           \E f \in [(1..n) \X metrics -> GrowthCells] :
               inTables = GrowthTable(inPeriod, metrics, n, f)
    /\ outValue = NotApplied

\* line 289: categorized_ratios["Growth Rate"] = _compute_growth_rates(...)
ComputeGrowth ==
    /\ ~outValue.applied
    /\ outValue' = [applied |-> TRUE,
                    value |-> _compute_growth_rates(inTables, inPeriod,
                                                    pandasMajor)]
    /\ UNCHANGED <<inTables, inPeriod, envVars, callVars, sessionVars,
                   frameworkVars, pageVars>>

NextGrowth == ComputeGrowth

SpecGrowth == InitGrowth /\ [][NextGrowth]_vars

\* the growth columns of a Growth Rate record
GrowthColumns(rec) == DOMAIN rec \ {"Year", "Quarter"}

\* C9: on a table of one period _compute_growth_rates returns an empty list;
\* on a table of two periods it returns one record, keyed by the later
\* period, whose growth values are the change from the earlier period.
C9_OneAndTwoPeriods ==
    outValue.applied =>
        LET recs == outValue.value
            rows == SortRowsAsc(inTables.rows)
        IN  /\ Len(rows) = 1 => recs = <<>>
            /\ Len(rows) = 2 =>
                   /\ Len(recs) = 1
                   /\ RecordKey(recs[1]) = KeyOf(rows[2])
                   /\ \A g \in GrowthColumns(recs[1]) :
                          recs[1][g] = PctCell(rows[1][growth_mappings[g]],
                                               rows[2][growth_mappings[g]])

\* C10: every record _compute_growth_rates returns has a non-null growth
\* value, whatever the table.
C10_GrowthValuePresent ==
    outValue.applied =>
        \A i \in DOMAIN outValue.value :
            \E g \in GrowthColumns(outValue.value[i]) :
                NotNa(outValue.value[i][g])

----------------------------------------------------------------------------
(* _extract_historical_data applied to the datasets of two compared tickers *)
(* whose histories differ in length and in their first period.              *)

\* a history is at most this many periods longer than max_periods
ExtraPeriods == 1

\* a history starts at most this many periods after the first period
MaxOffset == 1

\* the compare_list of the extraction
ExtractList == <<"AAA", "BBB">>

\* the metrics_to_process of the extraction
ExtractMetrics == {"P/E", "EPS (VND)"}

\* the i-th reporting period of a granularity
PeriodOf(granularity, i) ==
    IF granularity = "quarter"
    THEN <<2019 + ((i - 1) \div 4), ((i - 1) % 4) + 1>>
    ELSE <<2015 + i, 0>>

OtherGranularity(period) == IF period = "quarter" THEN "year" ELSE "quarter"

\* the lengths of the histories drawn
HistoryLengths(period) ==
    {1, max_periods(period)}
        \cup {max_periods(period) + k : k \in 1..ExtraPeriods}

\* the row in which a ticker's P/E is null
NullPatterns == {"none", "latest", "earliest"}

\* uniform: every row is of the granularity time_period; other: every row is
\* of the other granularity; mixed: the latest row is of the other granularity
Shapes == {"uniform", "other", "mixed"}

\* the granularity of row i of a history of n rows
RowGranularity(period, shape, i, n) ==
    CASE shape = "uniform" -> period
      [] shape = "other" -> OtherGranularity(period)
      [] shape = "mixed" -> IF i = n THEN OtherGranularity(period) ELSE period

\* the record of row i: its time columns and the cell of metric m
HistoryRecord(period, h, i, m, cell) ==
    LET g == RowGranularity(period, h.shape, i, h.n)
        key == PeriodOf(g, h.off + i)
    IN  IF g = "quarter"
        THEN Tabulated([c \in {"Year", "Quarter", m} |->
                 IF c = "Year" THEN Num(key[1])
                 ELSE IF c = "Quarter" THEN Num(key[2]) ELSE cell])
        ELSE Tabulated([c \in {"Year", m} |->
                 IF c = "Year" THEN Num(key[1]) ELSE cell])

\* the categorized_ratios of a history h: P/E is null in the row of h.nulls,
\* EPS (VND) is reported in every second period
HistoryRatios(period, h) ==
    LET pe(i) == IF \/ h.nulls = "latest" /\ i = h.n
                    \/ h.nulls = "earliest" /\ i = 1
                 THEN NaN ELSE Num(h.base + i)
        eps(i) == IF (h.off + i) % 2 = 0 THEN Num(h.base + i) ELSE NaN
    IN  Tabulated([c \in Categories |->
            IF c = "Valuation"
            THEN Listed([i \in 1..h.n |-> HistoryRecord(period, h, i, "P/E", pe(i))])
            ELSE IF c = "Per Share Value"
            THEN Listed([i \in 1..h.n |->
                            HistoryRecord(period, h, i, "EPS (VND)", eps(i))])
            ELSE <<>>])

\* the histories drawn for one ticker
Histories(period, shapes, base) ==
    [shape : shapes, n : HistoryLengths(period), off : 0..MaxOffset,
     nulls : NullPatterns, base : {base}]

\* ticker_data[t]: the dataset of a history, None for a ticker whose fetch failed
EntryOf(period, h) ==
    IF h = None THEN None
    ELSE [data |-> [categorized_ratios |-> HistoryRatios(period, h)],
          fetched |-> 0]

InitExtractOver(shapes) ==
    /\ InitOthers
    /\ inPeriod \in PeriodModes
    /\ \E order \in {ExtractList, Reverse(ExtractList)} :
       \E ha \in Histories(inPeriod, shapes, 10) \cup {None} :
       \E hb \in Histories(inPeriod, shapes, 20) \cup {None} :
           inTables = [ticker_data |->
                           Tabulated([t \in Range(ExtractList) |->
                               EntryOf(inPeriod, IF t = "AAA" THEN ha ELSE hb)]),
                       order |-> Listed(order)]
    /\ outValue = NotApplied

\* the datasets get_transformed_dataframes(t, time_period) returns
InitExtract == InitExtractOver({"uniform"})

\* any ticker_data
InitExtractAny == InitExtractOver(Shapes)

\* line 430: historical_data_temp = self._extract_historical_data(ticker_data)
Extract ==
    /\ ~outValue.applied
    /\ outValue' = [applied |-> TRUE,
                    value |-> _extract_historical_data(
                                  inTables.ticker_data, inTables.order, inPeriod,
                                  ExtractMetrics, ExtractList)]
    /\ UNCHANGED <<inTables, inPeriod, envVars, callVars, sessionVars,
                   frameworkVars, pageVars>>

NextExtract == Extract

SpecExtract == InitExtract /\ [][NextExtract]_vars

SpecExtractAny == InitExtractAny /\ [][NextExtract]_vars

\* the category records of ticker t in ticker_data
InputRecords(t) ==
    IF NoData(inTables.ticker_data[t]) THEN {}
    ELSE UNION {Range(inTables.ticker_data[t].data["categorized_ratios"][c]) :
                   c \in Categories}

\* the periods of ticker t
TickerKeys(t) == {RecordKey(r) : r \in InputRecords(t)}

\* the max_periods most recent periods of ticker t
RecentKeys(t) ==
    {k \in TickerKeys(t) :
        Cardinality({j \in TickerKeys(t) : KeyLess(k, j)}) < max_periods(inPeriod)}

\* whether ticker t reports a non-null value of m for period k
Reports(t, m, k) ==
    \E r \in InputRecords(t) :
        RecordKey(r) = k /\ m \in DOMAIN r /\ NotNa(r[m])

\* the value ticker t reports of m for period k
Reported(t, m, k) ==
    (CHOOSE r \in InputRecords(t) :
        RecordKey(r) = k /\ m \in DOMAIN r /\ NotNa(r[m]))[m]

\* the label of period k
LabelOfKey(k) ==
    PeriodLabel([Year |-> Num(k[1]), Quarter |-> Num(k[2])], inPeriod)

\* the period a label of the series stands for
KeyOfLabel(label) ==
    CHOOSE k \in UNION {TickerKeys(t) : t \in Range(ExtractList)} :
        LabelOfKey(k) = label

\* the records of historical_data[m] that carry a value for ticker t
Carrying(hist, m, t) == {i \in DOMAIN hist[m] : t \in DOMAIN hist[m][i]}

SeriesLabels(series) == {series[i]["period"] : i \in DOMAIN series}

\* the records of a series have pairwise distinct labels and each carries a
\* value of a compared ticker
OneRecordEach(series) ==
    /\ Cardinality(SeriesLabels(series)) = Len(series)
    /\ \A i \in DOMAIN series :
           DOMAIN series[i] \cap Range(ExtractList) # {}

C13_AscendingPeriods ==
    outValue.applied =>
        /\ ~outValue.value.raised
        /\ \A m \in ExtractMetrics :
               LET series == outValue.value.value[m]
               IN  \A i, j \in DOMAIN series :
                       i < j => KeyLess(KeyOfLabel(series[i]["period"]),
                                        KeyOfLabel(series[j]["period"]))

\* the ticker visited first holds the later periods (each ticker's rows are
\* met latest first), and in quarter mode the series runs over a year's end
C13_Witness ==
    /\ outValue.applied
    /\ ~outValue.value.raised
    /\ inPeriod = "quarter"
    /\ LET series == outValue.value.value["P/E"]
           first == inTables.order[1]
           second == inTables.order[2]
       IN  /\ Len(series) > 2
           /\ DOMAIN series[1] = {"period", second}
           /\ DOMAIN series[Len(series)] = {"period", first}
           /\ \E i \in DOMAIN series :
                  /\ i < Len(series)
                  /\ KeyOfLabel(series[i]["period"])[2] = 4
                  /\ KeyOfLabel(series[i + 1]["period"])[2] = 1

\* whether a category record is of the granularity time_period
RowMatches(r) ==
    IF inPeriod = "quarter"
    THEN "Quarter" \in DOMAIN r /\ NotNa(r["Quarter"])
    ELSE "Quarter" \notin DOMAIN r

\* C14: the aggregation does not fail, and every value of historical_data
\* comes from a category row of the granularity time_period: a row with a
\* Quarter field in year mode, or without a Quarter value in quarter mode,
\* contributes nothing, also when its category holds rows of both kinds.
C14_GranularityFiltered ==
    outValue.applied =>
        /\ ~outValue.value.raised
        /\ \A m \in ExtractMetrics :
               LET series == outValue.value.value[m]
               IN  \A i \in DOMAIN series :
                       \A t \in DOMAIN series[i] \ {"period"} :
                           \E r \in InputRecords(t) :
                               /\ RowMatches(r)
                               /\ LabelOfKey(RecordKey(r)) = series[i]["period"]
                               /\ m \in DOMAIN r
                               /\ r[m] = series[i][t]

----------------------------------------------------------------------------
(* The selection handlers and the framework filter on a loaded catalog.     *)

\* all_metrics before and after discover_all_metrics_from_db
Catalogs ==
    {<<>>,
     Tabulated([c \in {"Profitability", "Valuation"} |->
         IF c = "Profitability" THEN <<"ROE (%)", "EBITDA (Bn. VND)">>
         ELSE <<"P/E", "EV/EBITDA">>])}

\* frameworks.framework_metrics_df: framework id -> category -> metric names
FrameworkRows ==
    <<Tabulated([c \in {"Quality"} |-> <<"EBITDA">>]),
      Tabulated([c \in {"Value", "Income"} |->
          IF c = "Value" THEN <<" p/e ">> ELSE <<"Dividend Yield">>]),
      Tabulated([c \in {"Income"} |-> <<"Dividend Yield">>])>>

\* the id of a row of frameworks.frameworks_df
FrameworkId(n) == [id |-> n]

\* the outcomes of select_framework: its queries succeed, the first raises or
\* finds no row, the second raises
SelectOutcomes == {"loaded", "not_found", "load_raises"}

\* framework_state.py lines 40-75: load_framework_metrics
load_framework_metrics(fs, raises) ==
    IF fs.selected_framework_id = None THEN fs
    ELSE [fs EXCEPT !.framework_metrics =
              IF raises THEN <<>> ELSE FrameworkRows[fs.selected_framework_id.id]]

\* framework_state.py lines 19-38: select_framework
SelectFramework(id, outcome) ==
    /\ framework_state' =
           IF outcome = "not_found"
           THEN [framework_state EXCEPT !.selected_framework_id = FrameworkId(id)]
           ELSE load_framework_metrics(
                    [framework_state EXCEPT !.selected_framework_id = FrameworkId(id)],
                    outcome = "load_raises")
    /\ last_event' = [name |-> "select_framework", arg |-> outcome]
    /\ UNCHANGED <<framework_metrics, envVars, callVars, sessionVars, pureVars,
                   pageVars>>

\* framework_state.py lines 90-95: clear_framework_selection
ClearFrameworkSelection ==
    /\ framework_state' = NoFramework
    /\ last_event' = [name |-> "clear_framework_selection", arg |-> ""]
    /\ UNCHANGED <<framework_metrics, envVars, callVars, sessionVars, pureVars,
                   pageVars>>

\* lines 311-325
ToggleCategory(category) ==
    /\ selected_metrics' =
           toggle_category(selected_metrics,
                           available_metrics_by_category(framework_metrics,
                                                         all_metrics),
                           category)
    /\ last_event' = [name |-> "toggle_category", arg |-> category]
    /\ UNCHANGED <<compare_list, stocks, time_period, all_metrics, historical_data,
                   data_cache, fetch_runs, callVars, envVars, pureVars,
                   framework_metrics, framework_state, pageVars>>

\* lines 548-595: apply_framework_filter; load_raises is the outcome of the
\* load of line 560
ApplyFrameworkFilter(load_raises) ==
    /\ last_event' = [name |-> "apply_framework_filter", arg |-> ""]
    /\ IF framework_state.selected_framework_id = None
       THEN /\ ~load_raises
            /\ framework_metrics' = <<>>
            /\ UNCHANGED <<selected_metrics, framework_state>>
       ELSE /\ load_raises => DOMAIN framework_state.framework_metrics = {}
            /\ framework_state' =
                   IF DOMAIN framework_state.framework_metrics = {}
                   THEN load_framework_metrics(framework_state, load_raises)
                   ELSE framework_state
            /\ \E sets \in {MatchedSets(framework_state'.framework_metrics,
                                        all_metrics)} :
                   /\ \E fc \in [DOMAIN sets ->
                                    UNION {ListsOfSet(sets[c]) : c \in DOMAIN sets}] :
                          /\ IsListingOf(fc, sets)
                          /\ framework_metrics' = fc
                   /\ IF DOMAIN sets # {}
                      THEN selected_metrics'
                               \in ListsOfSet(UNION {sets[c] : c \in DOMAIN sets})
                      ELSE UNCHANGED selected_metrics
    /\ UNCHANGED <<compare_list, stocks, time_period, all_metrics, historical_data,
                   data_cache, fetch_runs, callVars, envVars, pureVars,
                   pageVars>>

InitCatalog ==
    /\ InitEnv
    /\ cache = <<>>
    /\ calls = [c \in Callers |-> IdleCall]
    /\ numCalls = 0
    /\ InitPure
    /\ compare_list = <<>>
    /\ stocks = <<>>
    /\ time_period = "quarter"
    /\ selected_metrics = <<>>
    /\ all_metrics \in Catalogs
    /\ historical_data = <<>>
    /\ data_cache = <<>>
    /\ fetch_runs = 0
    /\ framework_metrics = <<>>
    /\ framework_state = NoFramework
    /\ last_event = NoEvent
    /\ is_loading_data = FALSE

NextCatalog ==
    \/ \E m \in CatalogNames(all_metrics) : ToggleMetric(m)
    \/ \E c \in DOMAIN available_metrics_by_category(framework_metrics,
                                                      all_metrics) :
           ToggleCategory(c)
    \/ \E id \in DOMAIN FrameworkRows, outcome \in SelectOutcomes :
           SelectFramework(id, outcome)
    \/ ClearFrameworkSelection
    \/ \E load_raises \in BOOLEAN : ApplyFrameworkFilter(load_raises)

SpecCatalog == InitCatalog /\ [][NextCatalog]_vars

\* the current catalog view
CurrentView == available_metrics_by_category(framework_metrics, all_metrics)

\* C15: toggle_metric(m) flips the membership of m in selected_metrics and
\* leaves the membership of every other metric unchanged; a second
\* toggle_metric(m) restores the original selected set.
C15_ToggleMetricFlips ==
    [][\A m \in CatalogNames(all_metrics) :
           ToggleMetric(m) =>
               /\ m \in Range(selected_metrics') <=> m \notin Range(selected_metrics)
               /\ Range(selected_metrics') \ {m} = Range(selected_metrics) \ {m}
               /\ Range(toggle_metric(selected_metrics', m))
                      = Range(selected_metrics)]_vars

\* toggle_metric has removed a metric from a selection that holds others
C15_Witness ==
    /\ last_event.name = "toggle_metric"
    /\ last_event.arg \notin Range(selected_metrics)
    /\ Len(selected_metrics) > 1

\* C16: toggle_category(c): if every metric of c in the current catalog view
\* is selected before the call, none of them is selected after it; otherwise
\* all of them are; the membership of the metrics not in c is unchanged.
C16_ToggleCategoryAllOrNone ==
    [][\A c \in DOMAIN CurrentView :
           ToggleCategory(c) =>
               LET category_metrics == Range(CurrentView[c])
               IN  /\ IF category_metrics \subseteq Range(selected_metrics)
                      THEN category_metrics \cap Range(selected_metrics') = {}
                      ELSE category_metrics \subseteq Range(selected_metrics')
                   /\ Range(selected_metrics') \ category_metrics
                          = Range(selected_metrics) \ category_metrics]_vars

\* toggle_category has selected the rest of a category of which a metric was
\* selected earlier, before a metric of another category
C16_Witness ==
    /\ last_event.name = "toggle_category"
    /\ last_event.arg \in DOMAIN CurrentView
    /\ LET category_metrics == Range(CurrentView[last_event.arg])
       IN  /\ category_metrics \subseteq Range(selected_metrics)
           /\ \E i, j, k \in DOMAIN selected_metrics :
                  /\ i < j /\ j < k
                  /\ selected_metrics[i] \in category_metrics
                  /\ selected_metrics[j] \notin category_metrics
                  /\ selected_metrics[k] \in category_metrics

\* the metrics of the catalog in catalog order
RECURSIVE CatalogList(_, _)
CatalogList(allm, categories) ==
    IF Len(categories) = 0 THEN <<>>
    ELSE allm[Head(categories)] \o CatalogList(allm, Tail(categories))

\* the database metrics a framework name matches, in catalog order
MatchingMetrics(framework_name, allm) ==
    SelectSeq(CatalogList(allm, CatalogOrder(allm)),
              LAMBDA d : NameMatches(framework_name, d))

\* the first match of each name of a framework category that has a match
FirstMatches(framework_metric_names, allm) ==
    {MatchingMetrics(framework_metric_names[i], allm)[1] :
        i \in {j \in DOMAIN framework_metric_names :
                  Len(MatchingMetrics(framework_metric_names[j], allm)) > 0}}

\* apply_framework_filter runs with a framework selected
AppliesFramework ==
    /\ framework_state.selected_framework_id # None
    /\ \E load_raises \in BOOLEAN : ApplyFrameworkFilter(load_raises)

\* C17: apply_framework_filter resolves each framework metric name to at most
\* one database metric, its first match in catalog order: a framework category
\* holds the first matches of its names, and is absent when no name matches.
C17_FirstMatchWins ==
    [][AppliesFramework =>
           \A c \in DOMAIN framework_state'.framework_metrics :
               LET resolved == FirstMatches(framework_state'.framework_metrics[c],
                                            all_metrics)
               IN  IF resolved = {} THEN c \notin DOMAIN framework_metrics'
                   ELSE /\ c \in DOMAIN framework_metrics'
                        /\ Range(framework_metrics'[c]) = resolved]_vars

\* C18: after apply_framework_filter with a framework selected, the catalog
\* view is the framework-filtered catalog and selected_metrics is exactly the
\* set of the metrics the framework resolved to, whatever the framework and
\* the prior selection.
C18_ViewAndSelectionReset ==
    [][AppliesFramework =>
           LET sets == MatchedSets(framework_state'.framework_metrics, all_metrics)
           IN  /\ IsListingOf(available_metrics_by_category(framework_metrics',
                                                            all_metrics'),
                              sets)
               /\ Range(selected_metrics') = UNION {sets[c] : c \in DOMAIN sets}]_vars

\* C19: apply_framework_filter with no framework selected makes the catalog
\* view equal to the full all_metrics and leaves selected_metrics unchanged.
C19_NoFrameworkFullCatalog ==
    [][(/\ framework_state.selected_framework_id = None
        /\ \E load_raises \in BOOLEAN : ApplyFrameworkFilter(load_raises))
           => /\ available_metrics_by_category(framework_metrics', all_metrics')
                     = all_metrics
              /\ all_metrics' = all_metrics
              /\ selected_metrics' = selected_metrics]_vars

\* apply_framework_filter has run with no framework selected on a loaded
\* catalog and a selection
C19_Witness ==
    /\ last_event.name = "apply_framework_filter"
    /\ framework_state.selected_framework_id = None
    /\ DOMAIN all_metrics # {}
    /\ CurrentView = all_metrics
    /\ Len(selected_metrics) > 0

----------------------------------------------------------------------------
(* industry_best_performers on the latest records of the historical series. *)

\* a page that reads every metric at one period, the latest of all series
_get_latest_values_by_ticker_Shared(hd, list) ==
    LET filled == {m \in DOMAIN hd : Len(hd[m]) > 0}
        last_labels == {hd[m][Len(hd[m])].period : m \in filled}
        shared == CHOOSE p \in last_labels :
                      \A q \in last_labels : ParseInt(q) <= ParseInt(p)
        at_shared(m) == {i \in DOMAIN hd[m] : hd[m][i].period = shared}
        record(m) == hd[m][CHOOSE i \in at_shared(m) : TRUE]
        holds(t) == {m \in filled : at_shared(m) # {} /\ t \in DOMAIN record(m)}
    IN  Tabulated([t \in {u \in Range(list) : holds(u) # {}} |->
                      Tabulated([m \in holds(t) |-> record(m)[t]])])

\* lines 227-238: _get_latest_values_by_ticker, ticker -> metric -> value
_get_latest_values_by_ticker(hd, list) ==
    LET filled == {m \in DOMAIN hd : Len(hd[m]) > 0}
        latest_period(m) == hd[m][Len(hd[m])]
        holds(t) == {m \in filled : t \in DOMAIN latest_period(m)}
    IN  Tabulated([t \in {u \in Range(list) : holds(u) # {}} |->
                      Tabulated([m \in holds(t) |-> latest_period(m)[t]])])

\* lines 158-165: grouped_stocks, industry -> the stocks of the industry in
\* the order of self.stocks
grouped_stocks(stock_list) ==
    Tabulated([industry \in {stock_list[i].industry : i \in DOMAIN stock_list} |->
                  SelectSeq(stock_list, LAMBDA st : st.industry = industry)])

\* a page on which every metric is higher-is-better
lower_is_better_None == {}

\* lines 174-181
lower_is_better ==
    {"P/E", "P/B", "P/S", "Debt/Equity", "Days Sales Outstanding",
     "Days Inventory Outstanding"}

\* min(values, key=lambda x: x[0]): the first pair of the least value
FirstMin(values) ==
    values[CHOOSE i \in DOMAIN values :
               /\ \A j \in DOMAIN values : values[i][1].n <= values[j][1].n
               /\ \A j \in 1..(i - 1) : values[j][1].n > values[i][1].n]

\* max(values, key=lambda x: x[0]): the first pair of the greatest value
FirstMax(values) ==
    values[CHOOSE i \in DOMAIN values :
               /\ \A j \in DOMAIN values : values[i][1].n >= values[j][1].n
               /\ \A j \in 1..(i - 1) : values[j][1].n < values[i][1].n]

\* lines 167-203: industry_best_performers, industry -> metric -> ticker
industry_best_performers(stock_list, selected, hd, list) ==
    With(_get_latest_values_by_ticker(hd, list), LAMBDA latest_values :
    With(grouped_stocks(stock_list), LAMBDA groups :
        LET has_value(st, metric) ==
                /\ st.symbol \in DOMAIN latest_values
                /\ metric \in DOMAIN latest_values[st.symbol]
                /\ latest_values[st.symbol][metric].k = "num"
            values(industry, metric) ==
                LET with_value == SelectSeq(groups[industry],
                                            LAMBDA st : has_value(st, metric))
                IN  Listed([i \in DOMAIN with_value |->
                               <<latest_values[with_value[i].symbol][metric],
                                 with_value[i].symbol>>])
            best_ticker(industry, metric) ==
                IF metric \in lower_is_better
                THEN FirstMin(values(industry, metric))[2]
                ELSE FirstMax(values(industry, metric))[2]
        IN  Tabulated([industry \in DOMAIN groups |->
                Tabulated([metric \in {m \in Range(selected) :
                                          Len(values(industry, m)) > 0} |->
                              best_ticker(industry, metric)])])))

\* the compare_list of the page
BestList == <<"AAA", "BBB", "CCC">>

\* the industries of the stocks
Industries == {"Banks", "Steel"}

\* the selected metrics: lower-is-better and higher-is-better
BestMetrics == <<"P/E", "ROE (%)">>

\* what the latest record of a series holds for a ticker
LatestCells == {None, Num(1), Num(2)}

\* the series of a metric: a record in which every ticker has a value, then
\* the latest record with the cells drawn; a record without value is not in
\* the series (has_data)
BestSeries(cells) ==
    LET with_value == {t \in Range(BestList) : cells[t] # None}
        older == Tabulated([k \in {"period"} \cup Range(BestList) |->
                               IF k = "period" THEN <<"2", "0", "2", "1">>
                               ELSE Num(3)])
        latest == Tabulated([k \in {"period"} \cup with_value |->
                                IF k = "period" THEN <<"2", "0", "2", "2">>
                                ELSE cells[k]])
    IN  IF with_value = {} THEN <<older>> ELSE <<older, latest>>

InitBest ==
    /\ InitOthers
    /\ inPeriod = "year"
    /\ \E industry \in [Range(BestList) -> Industries] :
       \E cells \in [Range(BestMetrics) -> [Range(BestList) -> LatestCells]] :
           inTables =
               [stocks |-> Listed([i \in DOMAIN BestList |->
                              [symbol |-> BestList[i],
                               industry |-> industry[BestList[i]]]]),
                historical_data |->
                    Tabulated([m \in Range(BestMetrics) |-> BestSeries(cells[m])])]
    /\ outValue = NotApplied

\* lines 167-203: the computed var is evaluated
ComputeBest ==
    /\ ~outValue.applied
    /\ outValue' = [applied |-> TRUE,
                    value |-> industry_best_performers(
                                  inTables.stocks, BestMetrics,
                                  inTables.historical_data, BestList)]
    /\ UNCHANGED <<inTables, inPeriod, envVars, callVars, sessionVars,
                   frameworkVars, pageVars>>

NextBest == ComputeBest

SpecBest == InitBest /\ [][NextBest]_vars

\* the latest record of the series of a metric
LatestRecord(m) ==
    inTables.historical_data[m][Len(inTables.historical_data[m])]

\* the positions in stocks of the stocks of an industry with a latest value
Candidates(industry, m) ==
    {i \in DOMAIN inTables.stocks :
        /\ inTables.stocks[i].industry = industry
        /\ inTables.stocks[i].symbol \in DOMAIN LatestRecord(m)}

LatestOf(i, m) == LatestRecord(m)[inTables.stocks[i].symbol].n

\* candidate i attains the extreme of the metric
AttainsBest(i, industry, m) ==
    \A j \in Candidates(industry, m) :
        IF m \in {"P/E", "P/B", "P/S", "Debt/Equity", "Days Sales Outstanding",
                  "Days Inventory Outstanding"}
        THEN LatestOf(i, m) <= LatestOf(j, m)
        ELSE LatestOf(i, m) >= LatestOf(j, m)

----------------------------------------------------------------------------
(* industry_best_performers on a metric that no direction list names. *)

\* state/comparison_state.py lines 396-418: the higher-is-better list of the
\* legacy class; pages/compare/state.py has no such list
higher_better ==
    {"ROE (%)", "ROA (%)", "ROIC (%)", "Gross Profit Margin (%)",
     "Net Profit Margin (%)", "EBIT Margin (%)", "EPS (VND)", "BVPS (VND)",
     "Dividends paid", "Free Cash Flow", "Current Ratio", "Quick Ratio",
     "Cash Ratio", "Interest Coverage", "Asset Turnover",
     "Fixed Asset Turnover", "Inventory Turnover", "Revenue YoY",
     "Earnings YoY", "Free Cash Flow YoY", "Book Value YoY"}

\* state/comparison_state.py lines 420-433: the lower-is-better list of the
\* legacy class, a superset of lower_is_better
lower_better ==
    {"P/E", "P/B", "P/S", "P/Cash Flow", "EV/EBITDA", "Debt/Equity",
     "(ST+LT borrowings)/Equity", "Financial Leverage",
     "Days Sales Outstanding", "Days Inventory Outstanding",
     "Days Payable Outstanding", "Cash Cycle"}

\* the selected metrics: one of the catalog (Per Share Value) that neither
\* list names, and one that lower_better names and lower_is_better does not
NeutralMetrics == <<"Net Sales", "Cash Cycle">>

InitNeutral ==
    /\ InitOthers
    /\ inPeriod = "year"
    /\ \E industry \in [Range(BestList) -> Industries] :
       \E cells \in [Range(NeutralMetrics) -> [Range(BestList) -> LatestCells]] :
           inTables =
               [stocks |-> Listed([i \in DOMAIN BestList |->
                              [symbol |-> BestList[i],
                               industry |-> industry[BestList[i]]]]),
                historical_data |->
                    Tabulated([m \in Range(NeutralMetrics) |->
                                  BestSeries(cells[m])])]
    /\ outValue = NotApplied

\* lines 167-203: the computed var is evaluated
ComputeNeutral ==
    /\ ~outValue.applied
    /\ outValue' = [applied |-> TRUE,
                    value |-> industry_best_performers(
                                  inTables.stocks, NeutralMetrics,
                                  inTables.historical_data, BestList)]
    /\ UNCHANGED <<inTables, inPeriod, envVars, callVars, sessionVars,
                   frameworkVars, pageVars>>

NextNeutral == ComputeNeutral

SpecNeutral == InitNeutral /\ [][NextNeutral]_vars

\* C21: a selected metric that is in neither the higher-is-better set nor
\* the lower-is-better set never gets a winning ticker in
\* industry_best_performers, for any industry and any values.
C21_NoWinnerOutsideBothSets ==
    outValue.applied =>
        \A industry \in DOMAIN outValue.value :
            \A m \in DOMAIN outValue.value[industry] :
                m \in higher_better \cup lower_better

----------------------------------------------------------------------------
(* _get_latest_values_by_ticker on series that end at different periods. *)

\* lines 120 and 171: formatted_stocks and industry_best_performers read the
\* latest values
ComputeLatest ==
    /\ ~outValue.applied
    /\ outValue' = [applied |-> TRUE,
                    value |-> _get_latest_values_by_ticker(
                                  inTables.historical_data, BestList)]
    /\ UNCHANGED <<inTables, inPeriod, envVars, callVars, sessionVars,
                   frameworkVars, pageVars>>

NextLatest == ComputeLatest

SpecLatest == InitBest /\ [][NextLatest]_vars

\* C22: the latest value of a ticker for a metric is the ticker's value in
\* the last record of that metric's own series, whatever the last period of
\* the other series is; a ticker absent from that last record has no latest
\* value for the metric.
C22_LatestPerMetric ==
    outValue.applied =>
        \A t \in Range(BestList), m \in DOMAIN inTables.historical_data :
            IF t \in DOMAIN LatestRecord(m) \ {"period"}
            THEN /\ t \in DOMAIN outValue.value
                 /\ m \in DOMAIN outValue.value[t]
                 /\ outValue.value[t][m] = LatestRecord(m)[t]
            ELSE t \in DOMAIN outValue.value => m \notin DOMAIN outValue.value[t]

\* the two series end at different periods, a ticker has a latest value in
\* each of them, and a ticker that has a value in an earlier record of a
\* series and none in its last record has no latest value for that metric
C22_Witness ==
    /\ outValue.applied
    /\ LatestRecord("P/E").period # LatestRecord("ROE (%)").period
    /\ \E t \in Range(BestList) :
           /\ t \in DOMAIN outValue.value
           /\ DOMAIN outValue.value[t] = {"P/E", "ROE (%)"}
    /\ \E t \in Range(BestList), m \in Range(BestMetrics) :
           /\ Len(inTables.historical_data[m]) = 2
           /\ t \in DOMAIN inTables.historical_data[m][1]
           /\ t \notin DOMAIN LatestRecord(m)
           /\ t \in DOMAIN outValue.value
           /\ m \notin DOMAIN outValue.value[t]

----------------------------------------------------------------------------
(* preprocessing/formatters.py and _format_value.  A number is held as its
   sign, a decimal mantissa and a decimal exponent, so that the thresholds
   of format_large_number are reached without leaving 32-bit integers; the
   strings returned are sequences of characters. *)

\* the number (-1)^neg * mant * 10^exp, an int or a float
Dec(neg, mant, exp) == [k |-> "dec", neg |-> neg, mant |-> mant, exp |-> exp]

RECURSIVE Pow10(_)
Pow10(n) == IF n <= 0 THEN 1 ELSE 10 * Pow10(n - 1)

RECURSIVE Zeros(_)
Zeros(n) == IF n <= 0 THEN <<>> ELSE <<"0">> \o Zeros(n - 1)

\* abs(float(value)) >= 10^t
AbsAtLeast(v, t) ==
    IF v.exp >= t THEN v.mant >= 1
    ELSE IF t - v.exp > 9 THEN FALSE
    ELSE v.mant >= Pow10(t - v.exp)

\* value is None or (isinstance(value, float) and pd.isna(value))
IsNullValue(value) == value = None \/ value.k = "nan"

\* float(value): ValueError on a text that is no number
RaisesValueError(value) == value.k = "txt"

\* the digits of round(abs(v) / 10^t * 10^decimals); the format rounds to the
\* nearest and no input of the model is halfway
ScaledDigits(v, t, decimals) ==
    LET e == v.exp - t + decimals
    IN  IF v.mant = 0 THEN <<"0">>
        ELSE IF e >= 0 THEN IntStr(v.mant) \o Zeros(e)
        ELSE IF -e > 9 THEN <<"0">>
        ELSE LET p == Pow10(-e)
             IN  IntStr((v.mant \div p) + (IF 2 * (v.mant % p) > p THEN 1 ELSE 0))

\* f"{x:.{decimals}f}" of the non-negative number whose digits at that
\* precision are given
FixedStr(digits, decimals) ==
    LET padded == Zeros(decimals + 1 - Len(digits)) \o digits
        whole == SubSeq(padded, 1, Len(padded) - decimals)
    IN  IF decimals = 0 THEN whole
        ELSE whole \o <<".">> \o
             SubSeq(padded, Len(padded) - decimals + 1, Len(padded))

\* f"{float(value):.{decimals}f}": the sign bit of the float is printed
FloatStr(v, decimals) ==
    (IF v.neg THEN <<"-">> ELSE <<>>) \o FixedStr(ScaledDigits(v, 0, decimals), decimals)

\* a formatter that tests the thresholds before taking the absolute value
format_large_number_Signed(value, decimals) ==
    IF IsNullValue(value) \/ RaisesValueError(value) THEN Spelling("N/A")
    ELSE LET is_negative == value.neg /\ value.mant > 0
             at_least(t) == ~is_negative /\ AbsAtLeast(value, t)
             formatted ==
                 IF at_least(12)
                 THEN FixedStr(ScaledDigits(value, 12, decimals), decimals) \o <<" ", "T">>
                 ELSE IF at_least(9)
                 THEN FixedStr(ScaledDigits(value, 9, decimals), decimals) \o <<" ", "B">>
                 ELSE IF at_least(6)
                 THEN FixedStr(ScaledDigits(value, 6, decimals), decimals) \o <<" ", "M">>
                 ELSE FixedStr(ScaledDigits(value, 0, decimals), decimals)
         IN  IF is_negative THEN <<"-">> \o formatted ELSE formatted

\* formatters.py lines 7-46
format_large_number(value, decimals) ==
    IF IsNullValue(value) \/ RaisesValueError(value) THEN Spelling("N/A")
    ELSE LET is_negative == value.neg /\ value.mant > 0
             formatted ==
                 IF AbsAtLeast(value, 12)
                 THEN FixedStr(ScaledDigits(value, 12, decimals), decimals) \o <<" ", "T">>
                 ELSE IF AbsAtLeast(value, 9)
                 THEN FixedStr(ScaledDigits(value, 9, decimals), decimals) \o <<" ", "B">>
                 ELSE IF AbsAtLeast(value, 6)
                 THEN FixedStr(ScaledDigits(value, 6, decimals), decimals) \o <<" ", "M">>
                 ELSE FixedStr(ScaledDigits(value, 0, decimals), decimals)
         IN  IF is_negative THEN <<"-">> \o formatted ELSE formatted

\* formatters.py lines 49-66
format_percentage(value, decimals) ==
    IF IsNullValue(value) \/ RaisesValueError(value) THEN Spelling("N/A")
    ELSE FloatStr(value, decimals) \o <<"%">>

\* formatters.py lines 69-86
format_ratio(value, decimals) ==
    IF IsNullValue(value) \/ RaisesValueError(value) THEN Spelling("N/A")
    ELSE FloatStr(value, decimals)

\* formatters.py lines 89-105: int() truncates towards zero, and an int has
\* no negative zero
format_integer(value) ==
    IF IsNullValue(value) \/ RaisesValueError(value) THEN Spelling("N/A")
    ELSE LET digits == IF value.mant = 0 THEN <<"0">>
                       ELSE IF value.exp >= 0
                       THEN IntStr(value.mant) \o Zeros(value.exp)
                       ELSE IF -value.exp > 9 THEN <<"0">>
                       ELSE IntStr(value.mant \div Pow10(-value.exp))
         IN  IF value.neg /\ digits # <<"0">> THEN <<"-">> \o digits ELSE digits

\* formatters.py lines 108-128, called with use_suffix=True
format_currency_vnd(value, use_suffix) ==
    IF IsNullValue(value) THEN Spelling("N/A")
    ELSE IF use_suffix THEN format_large_number(value, 2)
    ELSE IF RaisesValueError(value) THEN Spelling("N/A")
    ELSE FloatStr(value, 0)

\* pattern in metric_name
NameHas(metric_name, pattern) == Contains(Spelling(metric_name), Spelling(pattern))

\* pages/compare/state.py lines 240-259
_format_value(metric_name, value) ==
    IF IsNullValue(value) THEN Spelling("N/A")
    ELSE IF \/ NameHas(metric_name, "(%)")
            \/ NameHas(metric_name, "Margin")
            \/ NameHas(metric_name, "YoY")
    THEN format_percentage(value, 2)
    ELSE IF \/ NameHas(metric_name, "(VND)")
            \/ NameHas(metric_name, "(Bn. VND)")
            \/ NameHas(metric_name, "Sales")
    THEN format_currency_vnd(value, TRUE)
    ELSE IF NameHas(metric_name, "Days")
    THEN format_integer(value)
    ELSE IF \/ NameHas(metric_name, "P/")
            \/ NameHas(metric_name, "Ratio")
            \/ NameHas(metric_name, "/")
    THEN format_ratio(value, 2)
    ELSE format_ratio(value, 2)

\* the mantissas and exponents of the numbers formatted
Mantissas == {0, 1, 2, 15, 453, 9999, 1234567, 999999999}

MaxFractionDigits == 3
MinExponent == 0 - MaxFractionDigits

MaxExponent == 12

\* the greatest number of digits before the decimal point
MaxWholeDigits == 14

\* the cut of a format falls exactly halfway between two results; binary
\* floating point decides such a case
Halfway(v, t) ==
    LET e == v.exp - t + 2
    IN  /\ e < 0
        /\ -e <= 9
        /\ 2 * (v.mant % Pow10(-e)) = Pow10(-e)

FormatNumbers ==
    {v \in {Dec(neg, mant, exp) : neg \in BOOLEAN, mant \in Mantissas,
                                  exp \in MinExponent..MaxExponent} :
        /\ v.mant = 0 => v.exp = 0
        /\ Len(IntStr(v.mant)) + v.exp <= MaxWholeDigits
        /\ \A t \in {0, 6, 9, 12} : ~Halfway(v, t)}

\* None, a float NaN, a text that float() rejects, and the numbers
FormatInputs == {None, NaN, Txt} \cup FormatNumbers

\* the metric names formatted
FormatNames ==
    {"Days Sales Outstanding", "Days Inventory Outstanding",
     "Days Payable Outstanding", "Gross Profit Margin (%)", "EPS (VND)",
     "Net Sales", "Current Ratio", "Cash Cycle", "P/E"}

InitFormat ==
    /\ InitOthers
    /\ inPeriod = "year"
    /\ \E name \in FormatNames, value \in FormatInputs :
           inTables = [metric_name |-> name, value |-> value]
    /\ outValue = NotApplied

\* lines 131-133: formatted_stocks formats the market cap
FormatLargeNumber ==
    /\ ~outValue.applied
    /\ outValue' = [applied |-> TRUE, by |-> "format_large_number",
                    value |-> format_large_number(inTables.value, 2)]
    /\ UNCHANGED <<inTables, inPeriod, envVars, callVars, sessionVars,
                   frameworkVars, pageVars>>

\* lines 142-150: formatted_stocks formats the value of a selected metric
FormatValue ==
    /\ ~outValue.applied
    /\ outValue' = [applied |-> TRUE, by |-> "_format_value",
                    value |-> _format_value(inTables.metric_name, inTables.value)]
    /\ UNCHANGED <<inTables, inPeriod, envVars, callVars, sessionVars,
                   frameworkVars, pageVars>>

NextFormat == FormatLargeNumber \/ FormatValue

SpecFormat == InitFormat /\ [][NextFormat]_vars

\* the string ends with the suffix
EndsWith(str, suffix) ==
    /\ Len(str) >= Len(suffix)
    /\ SubSeq(str, Len(str) - Len(suffix) + 1, Len(str)) = suffix

\* a plain decimal: digits around one point
IsPlainDecimal(str) ==
    \E i \in 2..(Len(str) - 1) :
        /\ str[i] = "."
        /\ \A j \in DOMAIN str : j # i => IsDigit(str[j])

C24_DaysAsInteger ==
    (/\ outValue.applied
     /\ outValue.by = "_format_value"
     /\ inTables.metric_name \in {"Days Sales Outstanding",
                                  "Days Inventory Outstanding",
                                  "Days Payable Outstanding"}) =>
        outValue.value = format_integer(inTables.value)

----------------------------------------------------------------------------
(* pages/ticker_analysis/state.py: get_chart_data_for_category on the
   categorized ratios of one ticker. *)

\* line 361: chart_points[-8:]
MaxChartPoints == 8

\* lines 344-355: the value of a point, 0 for a null
value_float(value) == IF value.k = "nan" THEN Num(0) ELSE value

\* lines 340-357: the point of a row
ChartPoint(row, selected_metric) ==
    [year |-> IF "Year" \in DOMAIN row THEN row["Year"] ELSE Txt,
     value |-> value_float(row[selected_metric])]

\* seq[-n:]
LastRows(seq, n) ==
    SubSeq(seq, IF Len(seq) > n THEN Len(seq) - n + 1 ELSE 1, Len(seq))

\* ticker_analysis/state.py lines 319-363, category -> points
get_chart_data_for_category(categorized_ratios, selected) ==
    LET points(category) ==
            IF category \notin DOMAIN categorized_ratios THEN <<>>
            ELSE LET data == categorized_ratios[category]
                     selected_metric == selected[category]
                 IN  IF selected_metric = "" \/ Len(data) = 0 THEN <<>>
                     ELSE IF selected_metric \notin DOMAIN data[1] THEN <<>>
                     ELSE LastRows(Listed([i \in DOMAIN data |->
                                              ChartPoint(data[i], selected_metric)]),
                                   MaxChartPoints)
    IN  Tabulated([category \in DOMAIN selected |-> points(category)])

\* lines 243-249 and 316-317: the metrics of a category that can be selected
SelectableMetrics(categorized_ratios, category) ==
    IF Len(categorized_ratios[category]) = 0 THEN {}
    ELSE DOMAIN categorized_ratios[category][1] \ {"Year", "Quarter", "Date", "Period"}

\* lines 181-215 and 300-304: the page loads the dataset of its ticker, a
\* metric of its first record is selected in each category with data, and
\* the computed var is evaluated
ChartData ==
    /\ ~outValue.applied
    /\ \E cr \in {TransformFrames(inTables, inPeriod, pandasMajor).categorized_ratios} :
       \E selected \in
              [{c \in Categories : SelectableMetrics(cr, c) # {}} ->
                  UNION {SelectableMetrics(cr, c) : c \in Categories}] :
           /\ \A c \in DOMAIN selected : selected[c] \in SelectableMetrics(cr, c)
           /\ outValue' = [applied |-> TRUE,
                           categorized_ratios |-> cr,
                           selected_metrics |-> selected,
                           value |-> get_chart_data_for_category(cr, selected)]
    /\ UNCHANGED <<inTables, inPeriod, envVars, callVars, sessionVars,
                   frameworkVars, pageVars>>

NextChart == ChartData

SpecChart == InitCategorize /\ [][NextChart]_vars

\* C25: for each category get_chart_data_for_category returns at most 8
\* points: the points of the most recent 8 periods of the category's records
\* (all of them when there are fewer), the oldest first, whether the
\* dataset holds the ratios alone or has statement tables merged in.
C25_RecentPointsOldestFirst ==
    outValue.applied =>
        \A c \in DOMAIN outValue.value :
            LET data == outValue.categorized_ratios[c]
                oldest_first == Reverse(SortRecordsDesc(data))
                recent == LastRows(oldest_first, MaxChartPoints)
                pts == outValue.value[c]
            IN  /\ Len(pts) <= MaxChartPoints
                /\ Len(pts) = Len(recent)
                /\ \A i \in DOMAIN pts :
                       pts[i] = ChartPoint(recent[i], outValue.selected_metrics[c])

----------------------------------------------------------------------------
(* The compare list of a session: tickers are added, removed and imported
   from the cart. *)

NextCart ==
    \/ \E failing \in SUBSET Tickers : FetchHistoricalData(failing)
    \/ \E checked \in BOOLEAN, failing \in SUBSET Tickers :
           ToggleTimePeriod(checked, failing)
    \/ \E t \in Tickers, lookup \in Lookups, failing \in SUBSET Tickers :
           AddTickerToCompare(t, lookup, failing)
    \/ \E t \in Tickers : RemoveStockFromCompare(t)
    \/ \E cart \in Carts : ImportCartToCompare(cart)

SpecCart == Init /\ [][NextCart]_vars

\* C26: between handlers, every ticker key that appears in a record of
\* historical_data is a member of compare_list.
C26_SeriesTickersCompared ==
    SeriesTickers(historical_data) \subseteq Range(compare_list)

----------------------------------------------------------------------------
(* The metric selection of a session with compared tickers. *)

\* the metrics the user selects and unselects
SelectedMetrics == {"EPS (VND)", "P/E"}

NextSelect ==
    \/ \E failing \in SUBSET Tickers : FetchHistoricalData(failing)
    \/ \E t \in Tickers, lookup \in Lookups, failing \in SUBSET Tickers :
           AddTickerToCompare(t, lookup, failing)
    \/ \E m \in SelectedMetrics : ToggleMetric(m)

SpecSelect == Init /\ [][NextSelect]_vars

\* the dataset holds a non-null value of the metric
DatasetHolds(dataset, m) ==
    \E c \in DOMAIN dataset.categorized_ratios :
        \E i \in DOMAIN dataset.categorized_ratios[c] :
            /\ m \in DOMAIN dataset.categorized_ratios[c][i]
            /\ NotNa(dataset.categorized_ratios[c][i][m])

\* C27: with a non-empty compare_list, every selected metric for which the
\* cached dataset of a compared ticker holds non-null values has a series in
\* historical_data that carries values of that ticker.
C27_SelectedMetricHasSeries ==
    Len(compare_list) > 0 =>
        \A m \in Range(selected_metrics), t \in Range(compare_list) :
            (/\ cache_key(t, time_period) \in DOMAIN data_cache
             /\ DatasetHolds(data_cache[cache_key(t, time_period)].data, m)) =>
                /\ m \in DOMAIN historical_data
                /\ \E i \in DOMAIN historical_data[m] : t \in DOMAIN historical_data[m][i]

----------------------------------------------------------------------------
(* The catalog all_metrics over the runs of fetch_historical_data. *)

\* the catalog holds, category by category, every metric of the other
CatalogCovers(catalog, other) ==
    \A c \in DOMAIN other :
        /\ c \in DOMAIN catalog
        /\ other[c] \subseteq catalog[c]

\* C28: a run of fetch_historical_data removes no metric from the catalog
\* all_metrics, and after it the catalog holds, per category, every metric
\* of the dataset of every ticker the session has fetched successfully.
C28_CatalogOnlyGrows ==
    [][FetchRan =>
          /\ CatalogCovers(all_metrics', all_metrics)
          /\ \A k \in DOMAIN data_cache' :
                 CatalogCovers(all_metrics',
                               _extract_all_metrics(data_cache'[k].data, <<>>))]_vars

----------------------------------------------------------------------------
(* Failed fetches over the runs of fetch_historical_data. *)

\* the tickers whose fetch failed in the run of this step: their ratios
\* query raised and the module cache had no entry to serve
FailedInRun ==
    {t \in Range(compare_list') :
        /\ t \in last_event'.failing
        /\ ~CacheHit(cache, cache_key(t, time_period'), now)}

\* the metrics the run of this step extracted (lines 517-521)
ProcessedMetrics ==
    IF Len(selected_metrics') > 0 THEN Range(selected_metrics')
    ELSE all_available_metrics(all_metrics')

\* C29: a ticker whose fetch failed in a run of fetch_historical_data is
\* stored neither in _data_cache nor in the module cache, so that the next
\* run has it among the tickers to fetch and no cache serves it; and when a
\* run fetches with success a ticker that failed in the run before, the
\* values its dataset holds for the extracted metrics are in
\* historical_data.
C29_FailedFetchRetried ==
    [][FetchRan =>
          /\ \A t \in FailedInRun :
                 LET key == cache_key(t, time_period')
                 IN  /\ key \notin DOMAIN data_cache'
                     /\ key \notin DOMAIN cache'
                     /\ t \in Range(TickersToFetch(compare_list', time_period',
                                                   data_cache'))
                     /\ ~CacheHit(cache', key, now')
          /\ \A t \in last_event'.recovered :
                 \A m \in ProcessedMetrics :
                     DatasetHolds(data_cache'[cache_key(t, time_period')].data, m) =>
                         /\ m \in DOMAIN historical_data'
                         /\ \E i \in DOMAIN historical_data'[m] :
                                t \in DOMAIN historical_data'[m][i]]_vars

\* a run in which the fetch of a ticker failed has been followed by a run
\* that fetched the ticker with success and put its values in the series
C29_Witness ==
    /\ "recovered" \in DOMAIN last_event
    /\ \E t \in last_event.recovered :
           /\ cache_key(t, time_period) \in DOMAIN data_cache
           /\ CacheHit(cache, cache_key(t, time_period), now)
           /\ t \in SeriesTickers(historical_data)

----------------------------------------------------------------------------
(* The rejections of add_ticker_to_compare. *)

\* no value stands at two places of the list
NoRepeats(list) ==
    \A i, j \in DOMAIN list : list[i] = list[j] => i = j

\* the step is a call of add_ticker_to_compare that has run to its end
AddTickerEnded ==
    /\ last_event' # last_event
    /\ last_event'.name = "add_ticker_to_compare"

\* the outcomes in which the ticker is not added: it is compared already
\* (line 626), it has no overview row (line 656), the lookup raised (line 661)
Rejections == {"duplicate", "missing", "raises"}

\* C30: a call of add_ticker_to_compare(t) leaves compare_list and stocks as
\* they were before the call when t is in compare_list already, when t has
\* no overview row, and when the lookup raises; compare_list never holds a
\* ticker twice; and is_loading_data is False when the handler has ended.
C30_RejectedTickerLeavesLists ==
    /\ [](NoRepeats(compare_list))
    /\ [][AddTickerEnded =>
              /\ last_event'.outcome \in Rejections =>
                     /\ compare_list' = compare_list
                     /\ stocks' = stocks
              /\ is_loading_data' = FALSE]_vars

\* a call for a ticker without an overview row, or whose lookup raised, has
\* ended while another ticker is compared, and a call for a compared ticker
\* can follow
C30_Witness ==
    /\ last_event.name = "add_ticker_to_compare"
    /\ last_event.outcome \in {"missing", "raises"}
    /\ last_event.arg \notin Range(compare_list)
    /\ Len(compare_list) > 0
    /\ Len(stocks) > 0
    /\ ~is_loading_data

====
